---------------------------- MODULE Spec2Model ----------------------------
(***************************************************************************)
(* A model of cursor-search-mcp, its wire codec first:                     *)
(*   proto.py       varints, field encoders, request encoders, the Connect *)
(*                  envelope and the hand-written response parsers;        *)
(*   messages.py    the field numbers of the response schemas;             *)
(*   client.py      CursorSearchClient: __init__, search and               *)
(*                  _parse_proto_response;                                 *)
(*   encryption.py  the path encryption schemes;                           *)
(*   auth.py        the checksum of a request;                             *)
(*   server.py      _get_search_client.                                    *)
(*                                                                         *)
(* Conventions.                                                            *)
(*   A bytes object is a sequence of 0..255.  Positions are 0-based as in  *)
(*   the source, so data[pos] of the source is data[pos + 1] here.         *)
(*   A Python int is a little-endian sequence of base-2^28 limbs without   *)
(*   a zero top limb (0 is << >>): Python ints are unbounded and the       *)
(*   varint claims reach 2^32 - 1, which a 32-bit signed integer cannot    *)
(*   hold.                                                                 *)
(*   A str is a sequence of code points.                                   *)
(*   A call that can raise returns a record whose st field is "ok" or the  *)
(*   name of the exception.                                                *)
(*                                                                         *)
(* Each component has its own specification over the shared variables;     *)
(* the variables of the other components rest at their idle values.        *)
(***************************************************************************)
EXTENDS Integers, Sequences, FiniteSets, TLC

VARIABLES
    v_n, v_buf, v_pos, v_res, v_pc, v_intact,     \* varint codec session
    f_out, f_log,                                 \* field encoder session
    e_stream, e_log, e_pc, e_res, e_parsed,       \* response body session
    d_fn, d_data, d_pos, d_end, d_acc, d_st,      \* a decoder run pass by pass
    d_prev, d_iters, d_calls,
    r_items, r_data, r_cut, r_nested, r_out,      \* a search response parsed
    r_pc,
    q_args, q_set, q_fn, q_out, q_pc,             \* a request being encoded
    m_kind, m_msg, m_parts, m_plain, m_unknown,   \* a message written and read
    m_out, m_pc,
    p_path, p_key, p_enc, p_dec, p_pc,            \* a path encrypted, decrypted
    g_pieces, g_key, g_out, g_pc,                 \* a glob pattern encrypted
    k_path, k_key, k_token, k_damage, k_parsed,   \* a keyed response parsed
    k_pc,
    c_ts, c_mid, c_out, c_ts2, c_mid2, c_out2,    \* two checksums generated
    c_pc,
    t_scheme, t_calls, t_frames, t_pcs, t_outs,   \* calls at the same time
    l_fn, l_arg, l_value, l_bits, l_result,       \* an encoder run pass by pass
    l_len, l_out, l_pc,
    s_env, s_client, s_call, s_sent, s_replies,   \* a client built, a search
    s_out, s_pc

varintVars == <<v_n, v_buf, v_pos, v_res, v_pc, v_intact>>
fieldVars == <<f_out, f_log>>
envVars == <<e_stream, e_log, e_pc, e_res, e_parsed>>
decVars == <<d_fn, d_data, d_pos, d_end, d_acc, d_st, d_prev, d_iters, d_calls>>
respVars == <<r_items, r_data, r_cut, r_nested, r_out, r_pc>>
reqVars == <<q_args, q_set, q_fn, q_out, q_pc>>
msgVars == <<m_kind, m_msg, m_parts, m_plain, m_unknown, m_out, m_pc>>
pathVars == <<p_path, p_key, p_enc, p_dec, p_pc>>
globVars == <<g_pieces, g_key, g_out, g_pc>>
keyedVars == <<k_path, k_key, k_token, k_damage, k_parsed, k_pc>>
checksumVars == <<c_ts, c_mid, c_out, c_ts2, c_mid2, c_out2, c_pc>>
threadVars == <<t_scheme, t_calls, t_frames, t_pcs, t_outs>>
loopVars == <<l_fn, l_arg, l_value, l_bits, l_result, l_len, l_out, l_pc>>
searchVars == <<s_env, s_client, s_call, s_sent, s_replies, s_out, s_pc>>

vars ==
    <<varintVars, fieldVars, envVars, decVars, respVars, reqVars, msgVars,
      pathVars, globVars, keyedVars, checksumVars, threadVars, loopVars,
      searchVars>>

\* What the actions of one component leave alone.
notVarintVars ==
    <<fieldVars, envVars, decVars, respVars, reqVars, msgVars, pathVars,
      globVars, keyedVars, checksumVars, threadVars, loopVars, searchVars>>
notFieldVars ==
    <<varintVars, envVars, decVars, respVars, reqVars, msgVars, pathVars,
      globVars, keyedVars, checksumVars, threadVars, loopVars, searchVars>>
notEnvVars ==
    <<varintVars, fieldVars, decVars, respVars, reqVars, msgVars, pathVars,
      globVars, keyedVars, checksumVars, threadVars, loopVars, searchVars>>
notDecVars ==
    <<varintVars, fieldVars, envVars, respVars, reqVars, msgVars, pathVars,
      globVars, keyedVars, checksumVars, threadVars, loopVars, searchVars>>
notRespVars ==
    <<varintVars, fieldVars, envVars, decVars, reqVars, msgVars, pathVars,
      globVars, keyedVars, checksumVars, threadVars, loopVars, searchVars>>
notReqVars ==
    <<varintVars, fieldVars, envVars, decVars, respVars, msgVars, pathVars,
      globVars, keyedVars, checksumVars, threadVars, loopVars, searchVars>>
notMsgVars ==
    <<varintVars, fieldVars, envVars, decVars, respVars, reqVars, pathVars,
      globVars, keyedVars, checksumVars, threadVars, loopVars, searchVars>>
notPathVars ==
    <<varintVars, fieldVars, envVars, decVars, respVars, reqVars, msgVars,
      globVars, keyedVars, checksumVars, threadVars, loopVars, searchVars>>
notGlobVars ==
    <<varintVars, fieldVars, envVars, decVars, respVars, reqVars, msgVars,
      pathVars, keyedVars, checksumVars, threadVars, loopVars, searchVars>>
notKeyedVars ==
    <<varintVars, fieldVars, envVars, decVars, respVars, reqVars, msgVars,
      pathVars, globVars, checksumVars, threadVars, loopVars, searchVars>>
notChecksumVars ==
    <<varintVars, fieldVars, envVars, decVars, respVars, reqVars, msgVars,
      pathVars, globVars, keyedVars, threadVars, loopVars, searchVars>>
notThreadVars ==
    <<varintVars, fieldVars, envVars, decVars, respVars, reqVars, msgVars,
      pathVars, globVars, keyedVars, checksumVars, loopVars, searchVars>>
notLoopVars ==
    <<varintVars, fieldVars, envVars, decVars, respVars, reqVars, msgVars,
      pathVars, globVars, keyedVars, checksumVars, threadVars, searchVars>>
notSearchVars ==
    <<varintVars, fieldVars, envVars, decVars, respVars, reqVars, msgVars,
      pathVars, globVars, keyedVars, checksumVars, threadVars, loopVars>>

----------------------------------------------------------------------------
(* Bytes and Python integers                                               *)

LimbBase == 2^28

Pow2(k) == 2^k

Bytes(s) == \A i \in 1..Len(s) : s[i] \in 0..255

\* data[a:b] of the source: both ends are clamped to the buffer.
Slice(data, a, b) ==
    LET lo == IF a > Len(data) THEN Len(data) ELSE a
        hi == IF b > Len(data) THEN Len(data) ELSE b
    IN  IF hi <= lo THEN << >> ELSE SubSeq(data, lo + 1, hi)

RECURSIVE PyNorm(_)
PyNorm(v) ==
    IF v = << >> THEN << >>
    ELSE IF v[Len(v)] = 0 THEN PyNorm(SubSeq(v, 1, Len(v) - 1))
    ELSE v

\* The Python int of a small integer of the model.
ToPy(n) == IF n = 0 THEN << >> ELSE <<n>>

\* The integer of a Python int that fits one limb; every larger value is
\* Beyond, which exceeds every length and position of the model.
Beyond == LimbBase

IntOf(v) == IF v = << >> THEN 0 ELSE IF Len(v) = 1 THEN v[1] ELSE Beyond

\* bool(value)
PyTruthy(v) == v # << >>

\* value & (2^k - 1), for k <= 28
PyLowBits(v, k) == IF v = << >> THEN 0 ELSE v[1] % Pow2(k)

\* value >> k, for k <= 28
PyShr(v, k) ==
    PyNorm([i \in 1..Len(v) |->
        (v[i] \div Pow2(k))
        + (IF i < Len(v) THEN (v[i + 1] % Pow2(k)) * Pow2(28 - k) ELSE 0)])

\* result | (g << shift) for 0 <= g < 128 and shift a multiple of 7, the
\* bits of result at shift and above being clear (the only use the decoder
\* makes of it): the group lands inside one limb.
PyOrShl(result, g, shift) ==
    LET i   == (shift \div 28) + 1
        n   == IF Len(result) > i THEN Len(result) ELSE i
        ext == [j \in 1..n |-> IF j <= Len(result) THEN result[j] ELSE 0]
    IN  PyNorm([ext EXCEPT ![i] = @ + g * Pow2(shift % 28)])

----------------------------------------------------------------------------
(* proto.py: varints                                                       *)

RECURSIVE EncodeVarintLoop(_, _, _)
EncodeVarintLoop(bits, value, result) ==
    IF PyTruthy(value)
    THEN EncodeVarintLoop(PyLowBits(value, 7), PyShr(value, 7),
                          Append(result, 128 + bits))
    ELSE Append(result, bits)

\* A plausible slip: the groups are emitted most significant first.
RECURSIVE EncodeVarintBigEndianLoop(_, _, _)
EncodeVarintBigEndianLoop(bits, value, result) ==
    IF PyTruthy(value)
    THEN EncodeVarintBigEndianLoop(PyLowBits(value, 7), PyShr(value, 7),
                                   <<bits>> \o result)
    ELSE LET all == <<bits>> \o result
         IN  [i \in 1..Len(all) |->
                 IF i < Len(all) THEN 128 + all[i] ELSE all[i]]

EncodeVarintBigEndian(value) ==
    EncodeVarintBigEndianLoop(PyLowBits(value, 7), PyShr(value, 7), << >>)

EncodeVarint(value) ==
    EncodeVarintLoop(PyLowBits(value, 7), PyShr(value, 7), << >>)

VarintOk(value, pos) == [st |-> "ok", value |-> value, pos |-> pos]
VarintRaise(exc) == [st |-> exc, value |-> << >>, pos |-> 0]

RECURSIVE DecodeVarintLoop(_, _, _, _)
DecodeVarintLoop(data, pos, result, shift) ==
    IF pos >= Len(data)
    THEN VarintRaise("IndexError")
    ELSE LET byte == data[pos + 1]
             r    == PyOrShl(result, byte % 128, shift)
         IN  IF byte < 128
             THEN VarintOk(r, pos + 1)
             ELSE DecodeVarintLoop(data, pos + 1, r, shift + 7)

\* A plausible slip: the end of the buffer ends the varint.
RECURSIVE DecodeVarintLenientLoop(_, _, _, _)
DecodeVarintLenientLoop(data, pos, result, shift) ==
    IF pos >= Len(data)
    THEN VarintOk(result, pos)
    ELSE LET byte == data[pos + 1]
             r    == PyOrShl(result, byte % 128, shift)
         IN  IF byte < 128
             THEN VarintOk(r, pos + 1)
             ELSE DecodeVarintLenientLoop(data, pos + 1, r, shift + 7)

DecodeVarintLenient(data, pos) == DecodeVarintLenientLoop(data, pos, << >>, 0)

DecodeVarint(data, pos) == DecodeVarintLoop(data, pos, << >>, 0)

----------------------------------------------------------------------------
(* str.encode("utf-8") and bytes.decode("utf-8")                           *)

Utf8OfCodePoint(c) ==
    IF c < 128 THEN <<c>>
    ELSE IF c < 2048 THEN <<192 + (c \div 64), 128 + (c % 64)>>
    ELSE IF c < 65536
         THEN <<224 + (c \div 4096), 128 + ((c \div 64) % 64), 128 + (c % 64)>>
    ELSE <<240 + (c \div 262144), 128 + ((c \div 4096) % 64),
           128 + ((c \div 64) % 64), 128 + (c % 64)>>

RECURSIVE Utf8Encode(_)
Utf8Encode(str) ==
    IF str = << >> THEN << >>
    ELSE Utf8OfCodePoint(str[1]) \o Utf8Encode(Tail(str))

IsCont(b) == b >= 128 /\ b < 192

\* The decoder is strict: a stray continuation byte, a short sequence, an
\* overlong form, a surrogate and a code point past U+10FFFF all raise
\* UnicodeDecodeError.
\* The first position from i on that holds a byte >= 0x80, or Len(b) + 1.
AsciiRunEnd(b, i) ==
    IF \A j \in i..Len(b) : b[j] < 128 THEN Len(b) + 1
    ELSE CHOOSE j \in i..Len(b) :
             b[j] >= 128 /\ \A k \in i..(j - 1) : b[k] < 128

RECURSIVE Utf8DecodeFrom(_, _, _)
Utf8DecodeFrom(b, i, acc) ==
    IF i > Len(b) THEN [st |-> "ok", str |-> acc]
    ELSE LET c == b[i]
             bad == [st |-> "UnicodeDecodeError", str |-> << >>]
         IN  IF c < 128
             THEN Utf8DecodeFrom(b, AsciiRunEnd(b, i),
                                 acc \o SubSeq(b, i, AsciiRunEnd(b, i) - 1))
             ELSE IF c >= 194 /\ c < 224
             THEN IF i + 1 <= Len(b) /\ IsCont(b[i + 1])
                  THEN Utf8DecodeFrom(b, i + 2,
                           Append(acc, (c - 192) * 64 + (b[i + 1] - 128)))
                  ELSE bad
             ELSE IF c >= 224 /\ c < 240
             THEN IF i + 2 <= Len(b) /\ IsCont(b[i + 1]) /\ IsCont(b[i + 2])
                  THEN LET cp == (c - 224) * 4096 + (b[i + 1] - 128) * 64
                                  + (b[i + 2] - 128)
                       IN  IF cp < 2048 \/ (cp >= 55296 /\ cp < 57344) THEN bad
                           ELSE Utf8DecodeFrom(b, i + 3, Append(acc, cp))
                  ELSE bad
             ELSE IF c >= 240 /\ c < 245
             THEN IF /\ i + 3 <= Len(b)
                     /\ IsCont(b[i + 1]) /\ IsCont(b[i + 2]) /\ IsCont(b[i + 3])
                  THEN LET cp == (c - 240) * 262144 + (b[i + 1] - 128) * 4096
                                  + (b[i + 2] - 128) * 64 + (b[i + 3] - 128)
                       IN  IF cp < 65536 \/ cp > 1114111 THEN bad
                           ELSE Utf8DecodeFrom(b, i + 4, Append(acc, cp))
                  ELSE bad
             ELSE bad

Utf8Decode(b) == Utf8DecodeFrom(b, 1, << >>)

----------------------------------------------------------------------------
(* Python floats and struct.  A float is an IEEE 754 double: [neg, bexp,   *)
(* frac] with the sign, the 11-bit biased exponent and the 52-bit fraction *)
(* (a Python int of the model).  "<d" stores the 64 bits least significant *)
(* byte first; "<f" reads a 32-bit float (8-bit exponent biased by 127,    *)
(* 23-bit fraction) and widens it to a double.                             *)

Float(neg, bexp, frac) == [neg |-> neg, bexp |-> bexp, frac |-> frac]
FloatZero == Float(FALSE, 0, << >>)
\* (-1)^neg * 2^e
FloatPow2(neg, e) == Float(neg, 1023 + e, << >>)

\* x == 0.0 (both zeros)
FloatIsZero(x) == x.bexp = 0 /\ x.frac = << >>

FracLimb(frac, i) == IF Len(frac) >= i THEN frac[i] ELSE 0

PackDouble(x) ==
    LET lo == FracLimb(x.frac, 1)
        hi == FracLimb(x.frac, 2)
    IN  <<lo % 256, (lo \div 256) % 256, (lo \div 65536) % 256,
          (lo \div 16777216) + (hi % 16) * 16,
          (hi \div 16) % 256, (hi \div 4096) % 256,
          (x.bexp % 16) * 16 + (hi \div 1048576),
          (IF x.neg THEN 128 ELSE 0) + (x.bexp \div 16)>>

\* struct.unpack("<d", b)[0] for eight bytes b
UnpackDouble(b) ==
    Float(b[8] >= 128,
          (b[8] % 128) * 16 + (b[7] \div 16),
          PyNorm(<<b[1] + b[2] * 256 + b[3] * 65536 + (b[4] % 16) * 16777216,
                   (b[4] \div 16) + b[5] * 16 + b[6] * 4096
                   + (b[7] % 16) * 1048576>>))

\* The position of the highest set bit of m, for 0 < m < 2^23.
RECURSIVE TopBit(_)
TopBit(m) == IF m <= 1 THEN 0 ELSE 1 + TopBit(m \div 2)

\* struct.unpack("<f", b)[0] for four bytes b
UnpackFloat(b) ==
    LET neg  == b[4] >= 128
        e8   == (b[4] % 128) * 2 + (b[3] \div 128)
        m    == (b[3] % 128) * 65536 + b[2] * 256 + b[1]
    IN  IF e8 = 0 /\ m = 0 THEN Float(neg, 0, << >>)
        ELSE IF e8 = 255 THEN Float(neg, 2047, PyNorm(<<0, m * 2>>))
        ELSE IF e8 = 0
             THEN LET t == TopBit(m)
                  IN  Float(neg, 1023 - 149 + t,
                            PyNorm(<<0, (m - Pow2(t)) * Pow2(24 - t)>>))
        ELSE Float(neg, e8 - 127 + 1023, PyNorm(<<0, m * 2>>))

\* Optional[float]
NoneFloat == [present |-> FALSE, x |-> FloatZero]
SomeFloat(x) == [present |-> TRUE, x |-> x]

----------------------------------------------------------------------------
(* proto.py: field encoders                                                *)

\* (field_number << 3) | wire_type
\* A plausible slip: the field number and the wire type change places.
TagSwapped(field_number, wire_type) == ToPy(wire_type * 8 + field_number)

Tag(field_number, wire_type) == ToPy(field_number * 8 + wire_type)

EncodeString(field_number, value) ==
    IF value = << >> THEN << >>
    ELSE LET encoded == Utf8Encode(value)
             tag     == EncodeVarint(Tag(field_number, 2))
             length  == EncodeVarint(ToPy(Len(encoded)))
         IN  tag \o length \o encoded

EncodeInt32(field_number, value) ==
    IF value = << >> THEN << >>
    ELSE EncodeVarint(Tag(field_number, 0)) \o EncodeVarint(value)

\* A plausible slip: "if not value" in place of "if value is None", which
\* drops a present 0.0.
EncodeDoubleFalsy(field_number, value) ==
    IF ~value.present \/ FloatIsZero(value.x) THEN << >>
    ELSE EncodeVarint(Tag(field_number, 1)) \o PackDouble(value.x)

EncodeDouble(field_number, value) ==
    IF ~value.present THEN << >>
    ELSE EncodeVarint(Tag(field_number, 1)) \o PackDouble(value.x)

EncodeBool(field_number, value) ==
    IF ~value THEN << >>
    ELSE EncodeVarint(Tag(field_number, 0)) \o <<1>>

EncodeMessage(field_number, data) ==
    IF data = << >> THEN << >>
    ELSE LET tag    == EncodeVarint(Tag(field_number, 2))
             length == EncodeVarint(ToPy(Len(data)))
         IN  tag \o length \o data

----------------------------------------------------------------------------
(* proto.py: the request encoders.  The keyword arguments of a call are a  *)
(* record; an Optional[str] or Optional[int] argument is [present, s] or   *)
(* [present, v], present being FALSE for None.                             *)

NoneStr == [present |-> FALSE, s |-> << >>]
SomeStr(s) == [present |-> TRUE, s |-> s]
NoneInt == [present |-> FALSE, v |-> << >>]
SomeInt(v) == [present |-> TRUE, v |-> v]

\* "."
DotPath == <<46>>
\* "origin"
OriginName == <<111, 114, 105, 103, 105, 110>>

\* if value: encode_string(field_number, value)
EncodeOptionalString(field_number, value) ==
    IF value.present /\ value.s # << >> THEN EncodeString(field_number, value.s)
    ELSE << >>

\* if value is not None: encode_int32(field_number, value)
EncodeOptionalInt32(field_number, value) ==
    IF value.present THEN EncodeInt32(field_number, value.v) ELSE << >>

\* if remote_url: remote_urls[0] at field 2 and remote_names[0] at field 3
EncodeRemote(remote_url) ==
    IF remote_url.present /\ remote_url.s # << >>
    THEN EncodeString(2, remote_url.s) \o EncodeString(3, OriginName)
    ELSE << >>

EncodeRepositoryInfo(args) ==
    EncodeString(1, args.relative_workspace_path)
    \o EncodeRemote(args.remote_url)
    \o EncodeString(4, args.repo_name)
    \o EncodeString(5, args.repo_owner)
    \o EncodeBool(6, args.is_tracked)
    \o EncodeBool(7, args.is_local)
    \o EncodeOptionalInt32(8, args.num_files)
    \o EncodeDouble(9, args.orthogonal_transform_seed)
    \o EncodeOptionalInt32(10, args.preferred_embedding_model)
    \o EncodeOptionalString(11, args.workspace_uri)
    \o EncodeOptionalInt32(12, args.preferred_db_provider)

\* The call of encode_repository_info by encode_search_repository_request:
\* relative_workspace_path is not passed and takes its default ".".
RepositoryInfoOfRequest(args) ==
    EncodeRepositoryInfo([args EXCEPT !.relative_workspace_path = DotPath])

\* A plausible slip: the workspace path of the repository info is omitted
\* like the other empty fields.
EncodeSearchRepositoryRequestNoPath(args) ==
    EncodeString(1, args.query)
    \o EncodeMessage(2, EncodeRepositoryInfo(
                            [args EXCEPT !.relative_workspace_path = << >>]))
    \o EncodeInt32(3, args.top_k)
    \o EncodeBool(5, args.rerank)
    \o EncodeOptionalString(7, args.glob_filter)

EncodeSearchRepositoryRequest(args) ==
    EncodeString(1, args.query)
    \o EncodeMessage(2, RepositoryInfoOfRequest(args))
    \o EncodeInt32(3, args.top_k)
    \o EncodeBool(5, args.rerank)
    \o EncodeOptionalString(7, args.glob_filter)

EncodeSemSearchRequest(args) ==
    EncodeMessage(1, EncodeSearchRepositoryRequest(args))

----------------------------------------------------------------------------
(* gzip.compress and gzip.decompress, abstracted to what the envelope      *)
(* decoder can observe: a member is a two-byte magic, a body that is an    *)
(* invertible recoding of the data, and a trailer holding a checksum and   *)
(* the size of the data.  Decompressing empty input gives empty output;    *)
(* input without the magic raises BadGzipFile, input too short for a       *)
(* member raises EOFError, a wrong checksum or size raises BadGzipFile.    *)

RECURSIVE ByteSum(_)
ByteSum(p) == IF p = << >> THEN 0 ELSE (p[1] + ByteSum(Tail(p))) % 256

Deflate(p) == [i \in 1..Len(p) |-> 255 - p[i]]
Inflate(b) == [i \in 1..Len(b) |-> 255 - b[i]]

GzipCompress(p) == <<31, 139>> \o Deflate(p) \o <<ByteSum(p), Len(p) % 256>>

GzipDecompress(m) ==
    IF m = << >> THEN [st |-> "ok", data |-> << >>]
    ELSE IF Len(m) < 2 \/ m[1] # 31 \/ m[2] # 139
    THEN [st |-> "BadGzipFile", data |-> << >>]
    ELSE IF Len(m) < 4 THEN [st |-> "EOFError", data |-> << >>]
    ELSE LET p == Inflate(SubSeq(m, 3, Len(m) - 2))
         IN  IF m[Len(m) - 1] = ByteSum(p) /\ m[Len(m)] = Len(p) % 256
             THEN [st |-> "ok", data |-> p]
             ELSE [st |-> "BadGzipFile", data |-> << >>]

----------------------------------------------------------------------------
(* proto.py: the Connect envelope                                          *)

\* struct.pack(">I", n): four bytes, most significant first.
PackU32(n) ==
    <<(n \div 16777216) % 256, (n \div 65536) % 256, (n \div 256) % 256,
      n % 256>>

\* struct.unpack(">I", b)[0] for four bytes b, as a Python int.
UnpackU32(b) ==
    PyNorm(<<(b[1] % 16) * 16777216 + b[2] * 65536 + b[3] * 256 + b[4],
             b[1] \div 16>>)

\* struct.pack(">BI", flags, len(data)) + data
EnvelopeFrame(flags, data) == <<flags>> \o PackU32(Len(data)) \o data

\* A plausible slip: "<BI", the length least significant byte first.
WrapConnectEnvelopeLittleEndian(data, compressed) ==
    <<IF compressed THEN 1 ELSE 0>>
    \o <<Len(data) % 256, (Len(data) \div 256) % 256,
         (Len(data) \div 65536) % 256, (Len(data) \div 16777216) % 256>>
    \o data

WrapConnectEnvelope(data, compressed) ==
    EnvelopeFrame(IF compressed THEN 1 ELSE 0, data)

EnvOk(messages) == [st |-> "ok", messages |-> messages]
EnvRaise(exc) == [st |-> exc, messages |-> << >>]

\* if pos + 5 > len(data): break
EnvHeaderShort(data, pos) == pos + 5 > Len(data)

\* A plausible slip: the header is read but not stepped over.
EnvAfterHeaderStuck(pos) == pos

\* pos += 5
EnvAfterHeader(pos) == pos + 5

\* A plausible slip: the payload check is left out and the slice delivers
\* what is there.
EnvPayloadShortNever(data, pos, length) == FALSE

\* if pos + length > len(data): break
EnvPayloadShort(data, pos, length) == pos + length > Len(data)

\* A plausible slip: the flags byte is compared with 2 instead of tested
\* for bit 1.
EnvIsTrailerExact(flags) == flags = 2

\* flags & 0x02
EnvIsTrailer(flags) == (flags \div 2) % 2 = 1

\* flags & 0x01
EnvIsCompressed(flags) == flags % 2 = 1

\* A plausible slip: a payload that does not decompress is emptied.
EnvInflateOrEmpty(message) ==
    LET g == GzipDecompress(message)
    IN  IF g.st = "ok" THEN g.data ELSE << >>

\* try: message = gzip.decompress(message) / except Exception: pass
EnvInflate(message) ==
    LET g == GzipDecompress(message)
    IN  IF g.st = "ok" THEN g.data ELSE message

\* One pass through the body of the while loop, entered with
\* pos < len(data): ctl is "continue" (back to the loop test), "break" or
\* the exception raised.
EnvIteration(data, pos, messages) ==
    IF EnvHeaderShort(data, pos)
    THEN [ctl |-> "break", pos |-> pos, messages |-> messages]
    ELSE IF pos >= Len(data)
    THEN [ctl |-> "IndexError", pos |-> pos, messages |-> messages]
    ELSE IF Len(Slice(data, pos + 1, pos + 5)) # 4
    THEN [ctl |-> "struct.error", pos |-> pos, messages |-> messages]
    ELSE LET flags   == data[pos + 1]
             length  == IntOf(UnpackU32(Slice(data, pos + 1, pos + 5)))
             p1      == EnvAfterHeader(pos)
             message == Slice(data, p1, p1 + length)
             p2      == p1 + length
         IN  IF EnvPayloadShort(data, p1, length)
             THEN [ctl |-> "break", pos |-> p1, messages |-> messages]
             ELSE IF EnvIsTrailer(flags)
             THEN [ctl |-> "continue", pos |-> p2, messages |-> messages]
             ELSE [ctl |-> "continue", pos |-> p2,
                   messages |-> Append(messages,
                       IF EnvIsCompressed(flags) THEN EnvInflate(message)
                       ELSE message)]

RECURSIVE DecodeConnectEnvelopeLoop(_, _, _)
DecodeConnectEnvelopeLoop(data, pos, messages) ==
    IF pos < Len(data)
    THEN LET it == EnvIteration(data, pos, messages)
         IN  IF it.ctl = "continue"
             THEN DecodeConnectEnvelopeLoop(data, it.pos, it.messages)
             ELSE IF it.ctl = "break" THEN EnvOk(it.messages)
             ELSE EnvRaise(it.ctl)
    ELSE EnvOk(messages)

DecodeConnectEnvelope(data) == DecodeConnectEnvelopeLoop(data, 0, << >>)

----------------------------------------------------------------------------
(* proto.py: the response parsers.  A dict of the source is a record; a    *)
(* dict that may be the empty dict {} carries a field "present".  One      *)
(* pass through the body of a parser's while loop is an operator           *)
(* XIteration returning [st, pos, acc]: st is "ok" or the exception, pos   *)
(* the read position and acc the result built so far.                      *)

\* tag >> 3 and tag & 0x7
FieldNumber(tag) == PyShr(tag, 3)
WireType(tag) == PyLowBits(tag, 3)
IsField(tag, field_number, wire_type) ==
    FieldNumber(tag) = ToPy(field_number) /\ WireType(tag) = wire_type

PosOk(pos) == [st |-> "ok", pos |-> pos]
PosRaise(exc) == [st |-> exc, pos |-> 0]

ItOk(pos, acc) == [st |-> "ok", pos |-> pos, acc |-> acc]
ItRaise(exc, pos, acc) == [st |-> exc, pos |-> pos, acc |-> acc]

ParseOk(value) == [st |-> "ok", value |-> value]
ParseRaise(exc, default) == [st |-> exc, value |-> default]

\* name = expression, for a value the code computes once and then uses
\* several times: Bind(expression, LAMBDA name : use).
Bind(value, Use(_)) == Use(value)

DecodeString(data, pos) ==
    Bind(DecodeVarint(data, pos), LAMBDA l :
        IF l.st # "ok" THEN [st |-> l.st, value |-> << >>, pos |-> 0]
        ELSE Bind(Utf8Decode(Slice(data, l.pos, l.pos + IntOf(l.value))),
                  LAMBDA u :
            IF u.st # "ok" THEN [st |-> u.st, value |-> << >>, pos |-> 0]
            ELSE [st |-> "ok", value |-> u.str,
                  pos |-> l.pos + IntOf(l.value)]))

\* One evaluation of the loop test "data[pos] & 0x80" of skip_field and of
\* the "pos += 1" that follows it, in the loop (more is TRUE) or after it.
SkipVarintIteration(data, pos) ==
    IF pos >= Len(data) THEN [st |-> "IndexError", pos |-> pos, more |-> FALSE]
    ELSE [st |-> "ok", pos |-> pos + 1, more |-> data[pos + 1] >= 128]

RECURSIVE SkipVarintLoop(_, _)
SkipVarintLoop(data, pos) ==
    Bind(SkipVarintIteration(data, pos), LAMBDA it :
        IF it.st # "ok" THEN PosRaise(it.st)
        ELSE IF it.more THEN SkipVarintLoop(data, it.pos)
        ELSE PosOk(it.pos))

\* A plausible slip: the 32-bit wire type is skipped as 8 bytes.
SkipFieldWide(data, pos, wire_type) ==
    IF wire_type = 0 THEN SkipVarintLoop(data, pos)
    ELSE IF wire_type = 1 THEN PosOk(pos + 8)
    ELSE IF wire_type = 2
         THEN Bind(DecodeVarint(data, pos), LAMBDA l :
                  IF l.st # "ok" THEN PosRaise(l.st)
                  ELSE PosOk(l.pos + IntOf(l.value)))
    ELSE IF wire_type = 5 THEN PosOk(pos + 8)
    ELSE PosOk(pos)

SkipField(data, pos, wire_type) ==
    IF wire_type = 0 THEN SkipVarintLoop(data, pos)
    ELSE IF wire_type = 1 THEN PosOk(pos + 8)
    ELSE IF wire_type = 2
         THEN Bind(DecodeVarint(data, pos), LAMBDA l :
                  IF l.st # "ok" THEN PosRaise(l.st)
                  ELSE PosOk(l.pos + IntOf(l.value)))
    ELSE IF wire_type = 5 THEN PosOk(pos + 4)
    ELSE PosOk(pos)

\* else: pos = skip_field(data, pos, wire_type)
SkipInto(data, pos0, pos, wire_type, acc) ==
    Bind(SkipField(data, pos, wire_type), LAMBDA k :
        IF k.st # "ok" THEN ItRaise(k.st, pos0, acc) ELSE ItOk(k.pos, acc))

EmptyPosition == [present |-> FALSE, line |-> << >>, column |-> << >>]
NewPosition == [present |-> TRUE, line |-> << >>, column |-> << >>]

\* result[key], pos = decode_varint(data, pos)
VarintInto(data, pos0, pos, result, key) ==
    Bind(DecodeVarint(data, pos), LAMBDA v :
        IF v.st # "ok" THEN ItRaise(v.st, pos0, result)
        ELSE ItOk(v.pos, [result EXCEPT ![key] = v.value]))

ParsePositionIteration(data, pos, result) ==
    Bind(DecodeVarint(data, pos), LAMBDA t :
        IF t.st # "ok" THEN ItRaise(t.st, pos, result)
        ELSE IF IsField(t.value, 1, 0)
        THEN VarintInto(data, pos, t.pos, result, "line")
        ELSE IF IsField(t.value, 2, 0)
        THEN VarintInto(data, pos, t.pos, result, "column")
        ELSE SkipInto(data, pos, t.pos, WireType(t.value), result))

RECURSIVE ParsePositionLoop(_, _, _, _)
ParsePositionLoop(data, pos, end, result) ==
    IF pos < end
    THEN Bind(ParsePositionIteration(data, pos, result), LAMBDA it :
             IF it.st # "ok" THEN ParseRaise(it.st, EmptyPosition)
             ELSE ParsePositionLoop(data, it.pos, end, it.acc))
    ELSE ParseOk(result)

ParsePosition(data, pos, end) == ParsePositionLoop(data, pos, end, NewPosition)

NewRange == [startPosition |-> EmptyPosition, endPosition |-> EmptyPosition]

\* length, pos = decode_varint(data, pos); pos_end = pos + length;
\* result[key] = parse_position(data, pos, pos_end); pos = pos_end
PositionInto(data, pos0, pos, result, key) ==
    Bind(DecodeVarint(data, pos), LAMBDA l :
        IF l.st # "ok" THEN ItRaise(l.st, pos0, result)
        ELSE Bind(ParsePosition(data, l.pos, l.pos + IntOf(l.value)),
                  LAMBDA r :
            IF r.st # "ok" THEN ItRaise(r.st, pos0, result)
            ELSE ItOk(l.pos + IntOf(l.value),
                      [result EXCEPT ![key] = r.value])))

ParseRangeIteration(data, pos, result) ==
    Bind(DecodeVarint(data, pos), LAMBDA t :
        IF t.st # "ok" THEN ItRaise(t.st, pos, result)
        ELSE IF IsField(t.value, 1, 2)
        THEN PositionInto(data, pos, t.pos, result, "startPosition")
        ELSE IF IsField(t.value, 2, 2)
        THEN PositionInto(data, pos, t.pos, result, "endPosition")
        ELSE SkipInto(data, pos, t.pos, WireType(t.value), result))

RECURSIVE ParseRangeLoop(_, _, _, _)
ParseRangeLoop(data, pos, end, result) ==
    IF pos < end
    THEN Bind(ParseRangeIteration(data, pos, result), LAMBDA it :
             IF it.st # "ok" THEN ParseRaise(it.st, NewRange)
             ELSE ParseRangeLoop(data, it.pos, end, it.acc))
    ELSE ParseOk(result)

ParseRange(data, pos, end) == ParseRangeLoop(data, pos, end, NewRange)

CodeBlockDict(present) ==
    [present |-> present, relativeWorkspacePath |-> << >>, contents |-> << >>,
     range |-> NewRange, fileContents |-> << >>, overrideContents |-> << >>,
     originalContents |-> << >>]
EmptyCodeBlock == CodeBlockDict(FALSE)
NewCodeBlock == CodeBlockDict(TRUE)

\* result[key], pos = decode_string(data, pos)
StringInto(data, pos0, pos, result, key) ==
    Bind(DecodeString(data, pos), LAMBDA v :
        IF v.st # "ok" THEN ItRaise(v.st, pos0, result)
        ELSE ItOk(v.pos, [result EXCEPT ![key] = v.value]))

\* range_len, pos = decode_varint(data, pos); range_end = pos + range_len;
\* result["range"] = parse_range(data, pos, range_end); pos = range_end
RangeInto(data, pos0, pos, result) ==
    Bind(DecodeVarint(data, pos), LAMBDA l :
        IF l.st # "ok" THEN ItRaise(l.st, pos0, result)
        ELSE Bind(ParseRange(data, l.pos, l.pos + IntOf(l.value)),
                  LAMBDA r :
            IF r.st # "ok" THEN ItRaise(r.st, pos0, result)
            ELSE ItOk(l.pos + IntOf(l.value),
                      [result EXCEPT !.range = r.value])))

\* The dict key of each string field of a CodeBlock.
CodeBlockStringKey(field_number) ==
    IF field_number = ToPy(1) THEN "relativeWorkspacePath"
    ELSE IF field_number = ToPy(2) THEN "fileContents"
    ELSE IF field_number = ToPy(4) THEN "contents"
    ELSE IF field_number = ToPy(6) THEN "overrideContents"
    ELSE IF field_number = ToPy(7) THEN "originalContents"
    ELSE "none"

ParseCodeBlockIteration(data, pos, result) ==
    Bind(DecodeVarint(data, pos), LAMBDA t :
        IF t.st # "ok" THEN ItRaise(t.st, pos, result)
        ELSE IF /\ WireType(t.value) = 2
                /\ CodeBlockStringKey(FieldNumber(t.value)) # "none"
        THEN StringInto(data, pos, t.pos, result,
                        CodeBlockStringKey(FieldNumber(t.value)))
        ELSE IF IsField(t.value, 3, 2)
        THEN RangeInto(data, pos, t.pos, result)
        ELSE SkipInto(data, pos, t.pos, WireType(t.value), result))

\* A plausible slip: the file contents are preferred to the override
\* contents.
CodeBlockContentsFallbackFileFirst(result) ==
    IF result.contents # << >> THEN result
    ELSE IF result.fileContents # << >>
    THEN [result EXCEPT !.contents = result.fileContents]
    ELSE IF result.overrideContents # << >>
    THEN [result EXCEPT !.contents = result.overrideContents]
    ELSE IF result.originalContents # << >>
    THEN [result EXCEPT !.contents = result.originalContents]
    ELSE result

\* if not result["contents"]: the first non-empty of overrideContents,
\* fileContents, originalContents
CodeBlockContentsFallback(result) ==
    IF result.contents # << >> THEN result
    ELSE IF result.overrideContents # << >>
    THEN [result EXCEPT !.contents = result.overrideContents]
    ELSE IF result.fileContents # << >>
    THEN [result EXCEPT !.contents = result.fileContents]
    ELSE IF result.originalContents # << >>
    THEN [result EXCEPT !.contents = result.originalContents]
    ELSE result

RECURSIVE ParseCodeBlockLoop(_, _, _, _)
ParseCodeBlockLoop(data, pos, end, result) ==
    IF pos < end
    THEN Bind(ParseCodeBlockIteration(data, pos, result), LAMBDA it :
             IF it.st # "ok" THEN ParseRaise(it.st, EmptyCodeBlock)
             ELSE ParseCodeBlockLoop(data, it.pos, end, it.acc))
    ELSE ParseOk(CodeBlockContentsFallback(result))

ParseCodeBlock(data, pos, end) ==
    ParseCodeBlockLoop(data, pos, end, NewCodeBlock)

NewCodeResult == [codeBlock |-> EmptyCodeBlock, score |-> FloatZero]

\* block_len, pos = decode_varint(data, pos); block_end = pos + block_len;
\* result["codeBlock"] = parse_code_block(data, pos, block_end)
CodeBlockInto(data, pos0, pos, result) ==
    Bind(DecodeVarint(data, pos), LAMBDA l :
        IF l.st # "ok" THEN ItRaise(l.st, pos0, result)
        ELSE Bind(ParseCodeBlock(data, l.pos, l.pos + IntOf(l.value)),
                  LAMBDA b :
            IF b.st # "ok" THEN ItRaise(b.st, pos0, result)
            ELSE ItOk(l.pos + IntOf(l.value),
                      [result EXCEPT !.codeBlock = b.value])))

\* A plausible slip: the read position moves 8 bytes for either width.
ScoreIntoWide(pos0, raw, size, pos, result) ==
    IF Len(raw) # size THEN ItRaise("struct.error", pos0, result)
    ELSE ItOk(pos + 8,
              [result EXCEPT !.score = IF size = 8 THEN UnpackDouble(raw)
                                       ELSE UnpackFloat(raw)])

\* result["score"] = struct.unpack("<d" or "<f", data[pos : pos + size])[0]
ScoreInto(pos0, raw, size, pos, result) ==
    IF Len(raw) # size THEN ItRaise("struct.error", pos0, result)
    ELSE ItOk(pos + size,
              [result EXCEPT !.score = IF size = 8 THEN UnpackDouble(raw)
                                       ELSE UnpackFloat(raw)])

ParseCodeResultIteration(data, pos, result) ==
    Bind(DecodeVarint(data, pos), LAMBDA t :
        IF t.st # "ok" THEN ItRaise(t.st, pos, result)
        ELSE IF IsField(t.value, 1, 2)
        THEN CodeBlockInto(data, pos, t.pos, result)
        ELSE IF IsField(t.value, 2, 1)
        THEN ScoreInto(pos, Slice(data, t.pos, t.pos + 8), 8, t.pos, result)
        ELSE IF IsField(t.value, 2, 5)
        THEN ScoreInto(pos, Slice(data, t.pos, t.pos + 4), 4, t.pos, result)
        ELSE SkipInto(data, pos, t.pos, WireType(t.value), result))

RECURSIVE ParseCodeResultLoop(_, _, _, _)
ParseCodeResultLoop(data, pos, end, result) ==
    IF pos < end
    THEN Bind(ParseCodeResultIteration(data, pos, result), LAMBDA it :
             IF it.st # "ok" THEN ParseRaise(it.st, NewCodeResult)
             ELSE ParseCodeResultLoop(data, it.pos, end, it.acc))
    ELSE ParseOk(result)

ParseCodeResult(data, pos, end) ==
    ParseCodeResultLoop(data, pos, end, NewCodeResult)

\* Optional[dict]: found is FALSE for None.
NoneResult == [found |-> FALSE, result |-> NewCodeResult]
SomeResult(r) == [found |-> TRUE, result |-> r]

ClassifiedIt(st, pos, acc, ret) ==
    [st |-> st, pos |-> pos, acc |-> acc, ret |-> ret]

\* One pass through the loop of parse_code_result_with_classification;
\* ret says that the pass returned from the function.
ClassifiedIteration(data, pos, acc) ==
    Bind(DecodeVarint(data, pos), LAMBDA t :
        IF t.st # "ok" THEN ClassifiedIt(t.st, pos, acc, FALSE)
        ELSE IF IsField(t.value, 1, 2)
        THEN Bind(DecodeVarint(data, t.pos), LAMBDA l :
            IF l.st # "ok" THEN ClassifiedIt(l.st, pos, acc, FALSE)
            ELSE Bind(ParseCodeResult(data, l.pos, l.pos + IntOf(l.value)),
                      LAMBDA r :
                IF r.st # "ok" THEN ClassifiedIt(r.st, pos, acc, FALSE)
                ELSE ClassifiedIt("ok", l.pos, SomeResult(r.value), TRUE)))
        ELSE Bind(SkipField(data, t.pos, WireType(t.value)), LAMBDA k :
            IF k.st # "ok" THEN ClassifiedIt(k.st, pos, acc, FALSE)
            ELSE ClassifiedIt("ok", k.pos, acc, FALSE)))

RECURSIVE ClassifiedLoop(_, _, _)
ClassifiedLoop(data, pos, end) ==
    IF pos < end
    THEN Bind(ClassifiedIteration(data, pos, NoneResult), LAMBDA it :
             IF it.st # "ok" THEN ParseRaise(it.st, NoneResult)
             ELSE IF it.ret THEN ParseOk(it.acc)
             ELSE ClassifiedLoop(data, it.pos, end))
    ELSE ParseOk(NoneResult)

ParseCodeResultWithClassification(data, pos, end) ==
    ClassifiedLoop(data, pos, end)

\* result and result["codeBlock"].get("relativeWorkspacePath")
HasPath(result) ==
    result.codeBlock.present /\ result.codeBlock.relativeWorkspacePath # << >>

RECURSIVE ParseSearchResponse(_)

\* What one pass through the loop of parse_search_response yields; calls
\* lists the buffers the pass handed to recursive calls of
\* parse_search_response.
ResponseIt(st, pos, acc, calls) ==
    [st |-> st, pos |-> pos, acc |-> acc, calls |-> calls]

\* except Exception: nested = parse_search_response(payload);
\* results.extend(nested)
NestedInto(pos0, item_end, payload, results) ==
    Bind(ParseSearchResponse(payload), LAMBDA inner :
        IF inner.st # "ok"
        THEN ResponseIt(inner.st, pos0, results, <<payload>>)
        ELSE ResponseIt("ok", item_end, results \o inner.value, <<payload>>))

\* payload = data[pos:item_end]; pos = item_end;
\* try: parse_code_result(payload, 0, len(payload)), kept if it has a path
ResultInto(pos0, item_end, payload, results) ==
    Bind(ParseCodeResult(payload, 0, Len(payload)), LAMBDA r :
        IF r.st = "ok" /\ HasPath(r.value)
        THEN ResponseIt("ok", item_end, Append(results, r.value), << >>)
        ELSE NestedInto(pos0, item_end, payload, results))

\* try: parse_code_result_with_classification(data, pos, item_end), kept
\* if it has a path; except Exception: pass
ClassifiedInto(data, pos, item_end, results) ==
    Bind(ParseCodeResultWithClassification(data, pos, item_end), LAMBDA c :
        ResponseIt("ok", item_end,
                   IF c.st = "ok" /\ c.value.found /\ HasPath(c.value.result)
                   THEN Append(results, c.value.result)
                   ELSE results,
                   << >>))

SearchResponseIteration(data, pos, results) ==
    Bind(DecodeVarint(data, pos), LAMBDA t :
        IF t.st # "ok" THEN ResponseIt(t.st, pos, results, << >>)
        ELSE IF IsField(t.value, 1, 2)
        THEN Bind(DecodeVarint(data, t.pos), LAMBDA l :
            IF l.st # "ok" THEN ResponseIt(l.st, pos, results, << >>)
            ELSE ResultInto(pos, l.pos + IntOf(l.value),
                            Slice(data, l.pos, l.pos + IntOf(l.value)),
                            results))
        ELSE IF IsField(t.value, 3, 2)
        THEN Bind(DecodeVarint(data, t.pos), LAMBDA l :
            IF l.st # "ok" THEN ResponseIt(l.st, pos, results, << >>)
            ELSE ClassifiedInto(data, l.pos, l.pos + IntOf(l.value), results))
        ELSE Bind(SkipField(data, t.pos, WireType(t.value)), LAMBDA k :
            IF k.st # "ok" THEN ResponseIt(k.st, pos, results, << >>)
            ELSE ResponseIt("ok", k.pos, results, << >>)))

RECURSIVE ParseSearchResponseLoop(_, _, _, _)
ParseSearchResponseLoop(data, pos, end, results) ==
    IF pos < end
    THEN Bind(SearchResponseIteration(data, pos, results), LAMBDA it :
             IF it.st # "ok" THEN ParseRaise(it.st, << >>)
             ELSE ParseSearchResponseLoop(data, it.pos, end, it.acc))
    ELSE ParseOk(results)

ParseSearchResponse(data) ==
    ParseSearchResponseLoop(data, 0, Len(data), << >>)

----------------------------------------------------------------------------
(* encryption.py: the path encryption schemes.  SHA-256, HMAC-SHA-256 and  *)
(* AES-256 are library code; they are stood for by small deterministic     *)
(* functions of the same inputs: Sha256 and HmacSha256 by a digest of the  *)
(* bytes, AesCtr by the XOR with a key stream drawn from the key and the   *)
(* IV, which is how CTR mode encrypts and decrypts.                        *)

\* a ^ b on bytes
XorByte(a, b) ==
    LET bit(x, k) == (x \div Pow2(k)) % 2
        x(k) == ((bit(a, k) + bit(b, k)) % 2) * Pow2(k)
    IN  x(0) + x(1) + x(2) + x(3) + x(4) + x(5) + x(6) + x(7)

B64Groups(n) == (n + 2) \div 3

\* The 6-bit digits of the bytes, the last group filled up with zero bits.
B64Digits(data) ==
    LET at(i) == IF i <= Len(data) THEN data[i] ELSE 0
        digit(g, k) ==
            LET b1 == at(3 * g - 2)
                b2 == at(3 * g - 1)
                b3 == at(3 * g)
            IN  IF k = 1 THEN b1 \div 4
                ELSE IF k = 2 THEN (b1 % 4) * 16 + b2 \div 16
                ELSE IF k = 3 THEN (b2 % 16) * 4 + b3 \div 64
                ELSE b3 % 64
    IN  [j \in 1..(4 * B64Groups(Len(data))) |->
            digit((j + 3) \div 4, ((j - 1) % 4) + 1)]

\* A plausible slip: the alphabet of plain base64, with "+" and "/".
B64UrlCharPlain(d) ==
    IF d < 26 THEN 65 + d
    ELSE IF d < 52 THEN 97 + (d - 26)
    ELSE IF d < 62 THEN 48 + (d - 52)
    ELSE IF d = 62 THEN 43
    ELSE 47

\* The URL-safe alphabet: A-Z a-z 0-9 - _
B64UrlChar(d) ==
    IF d < 26 THEN 65 + d
    ELSE IF d < 52 THEN 97 + (d - 26)
    ELSE IF d < 62 THEN 48 + (d - 52)
    ELSE IF d = 62 THEN 45
    ELSE 95

B64UrlAlphabet == {B64UrlChar(d) : d \in 0..63}

B64UrlDigit(c) == CHOOSE d \in 0..63 : B64UrlChar(d) = c

\* The characters of base64 text without its "=" padding: one byte gives
\* two characters, two bytes three.
B64TextLen(n) == 4 * (n \div 3) + (IF n % 3 = 0 THEN 0 ELSE (n % 3) + 1)

\* base64.urlsafe_b64encode(data).decode("ascii").rstrip("=")
B64UrlEncode(data) ==
    [j \in 1..B64TextLen(Len(data)) |-> B64UrlChar(B64Digits(data)[j])]

DecodedOk(bytes) == [st |-> "ok", bytes |-> bytes]
DecodedError(st) == [st |-> st, bytes |-> << >>]

\* The bytes of the 6-bit digits: four digits give three bytes, three give
\* two, two give one.
B64Bytes(digits) ==
    LET at(i) == IF i <= Len(digits) THEN digits[i] ELSE 0
        n == 3 * (Len(digits) \div 4)
                 + (IF Len(digits) % 4 = 0 THEN 0 ELSE (Len(digits) % 4) - 1)
        byte(g, k) ==
            LET d1 == at(4 * g - 3)
                d2 == at(4 * g - 2)
                d3 == at(4 * g - 1)
                d4 == at(4 * g)
            IN  IF k = 1 THEN d1 * 4 + d2 \div 16
                ELSE IF k = 2 THEN (d2 % 16) * 16 + d3 \div 4
                ELSE (d3 % 4) * 64 + d4
    IN  [j \in 1..n |-> byte((j + 2) \div 3, ((j - 1) % 3) + 1)]

\* urlsafe_b64decode reads "+" and "/" as it reads "-" and "_".
B64AnyDigit(c) ==
    IF c = 43 THEN 62 ELSE IF c = 47 THEN 63 ELSE B64UrlDigit(c)

\* padding = "=" * (-len(data) % 4); base64.urlsafe_b64decode(data +
\* padding): characters outside the alphabets are discarded; a last
\* group of one character, or one of two or three characters with less
\* padding than it needs, is a binascii.Error.
B64UrlDecode(text) ==
    LET kept == SelectSeq(text, LAMBDA c : c \in B64UrlAlphabet \cup {43, 47})
        pad == (4 - (Len(text) % 4)) % 4
        last == Len(kept) % 4
    IN  IF last = 1 \/ (last = 2 /\ pad < 2) \/ (last = 3 /\ pad < 1)
        THEN DecodedError("binascii.Error")
        ELSE DecodedOk(B64Bytes([j \in 1..Len(kept) |-> B64AnyDigit(kept[j])]))

\* value + "\0" * pad, the pad counted on the characters of the string
PadToMultiple(value, multiple) ==
    LET pad == (multiple - (Len(value) % multiple)) % multiple
    IN  IF pad = 0 THEN value ELSE value \o [i \in 1..pad |-> 0]

\* A plausible slip: the padding is not stripped after decrypting.
RStripNulKept(bytes) == bytes

\* plaintext.rstrip(b"\x00")
RStripNul(bytes) ==
    IF \A i \in 1..Len(bytes) : bytes[i] = 0 THEN << >>
    ELSE SubSeq(bytes, 1,
                CHOOSE n \in 1..Len(bytes) :
                    /\ bytes[n] # 0
                    /\ \A i \in (n + 1)..Len(bytes) : bytes[i] = 0)

RECURSIVE Digest(_, _)
\* A byte drawn from all the bytes and their order.
Digest(bytes, h) ==
    IF bytes = << >> THEN h
    ELSE Digest(Tail(bytes), (h * 31 + Head(bytes) + 7) % 256)

\* hashlib.sha256(data).digest(), stood for by four bytes
Sha256(data) ==
    [i \in 1..4 |-> (Digest(data, i) * 5 + 17 * i) % 256]

\* hmac.new(key, msg, hashlib.sha256).digest(), stood for by eight bytes
HmacSha256(key, msg) ==
    [i \in 1..8 |-> (Digest(key \o msg, 2 * i + 1) * 3 + 29 * i) % 256]

\* Cipher(algorithms.AES(key), modes.CTR(iv)): update(data) + finalize(),
\* of the encryptor and of the decryptor alike
AesCtr(key, iv, data) ==
    [i \in 1..Len(data) |->
        XorByte(data[i], (Digest(key \o iv, i) * 7 + 13 * i) % 256)]

PlainTextEncryptionScheme ==
    [keyed |-> FALSE, mac_key |-> << >>, enc_key |-> << >>]

\* __post_init__ (the key is base64url text)
V1MasterKeyedEncryptionScheme(master_key_raw) ==
    [keyed |-> TRUE,
     mac_key |-> Sha256(B64UrlDecode(master_key_raw).bytes \o <<0>>),
     enc_key |-> Sha256(B64UrlDecode(master_key_raw).bytes \o <<1>>)]

\* if not key: return PlainTextEncryptionScheme()
BuildPathEncryptionScheme(key) ==
    IF ~key.present \/ key.s = << >> THEN PlainTextEncryptionScheme
    ELSE V1MasterKeyedEncryptionScheme(key.s)

\* iv = prefix + (b"\x00" * 10)
IvOf(prefix) == prefix \o [i \in 1..10 |-> 0]

SchemeEncrypt(scheme, value) ==
    IF ~scheme.keyed THEN value
    ELSE LET prefix == SubSeq(HmacSha256(scheme.mac_key, Utf8Encode(value)),
                              1, 6)
         IN  B64UrlEncode(prefix \o AesCtr(scheme.enc_key, IvOf(prefix),
                                          Utf8Encode(PadToMultiple(value, 4))))

TextOk(str) == [st |-> "ok", str |-> str]
TextError(st) == [st |-> st, str |-> << >>]

\* plaintext.rstrip(b"\x00").decode("utf-8")
PlainTextOf(scheme, raw) ==
    Bind(Utf8Decode(RStripNul(AesCtr(scheme.enc_key, IvOf(Slice(raw, 0, 6)),
                                     Slice(raw, 6, Len(raw))))),
         LAMBDA t : IF t.st = "ok" THEN TextOk(t.str) ELSE TextError(t.st))

SchemeDecrypt(scheme, value) ==
    IF ~scheme.keyed THEN TextOk(value)
    ELSE Bind(B64UrlDecode(value), LAMBDA raw :
             IF raw.st # "ok" THEN TextError(raw.st)
             ELSE PlainTextOf(scheme, raw.bytes))

\* _PATH_SPLIT_RE: "." "/" "\"
PathSeparators == {46, 47, 92}

RECURSIVE PathSplitFrom(_, _, _, _)
PathSplitFrom(path, i, part, parts) ==
    IF i > Len(path) THEN Append(parts, part)
    ELSE IF path[i] \in PathSeparators
    THEN PathSplitFrom(path, i + 1, << >>, parts \o <<part, <<path[i]>>>>)
    ELSE PathSplitFrom(path, i + 1, Append(part, path[i]), parts)

\* _PATH_SPLIT_RE.split(path): the parts between the separators and, the
\* pattern being a group, the separators themselves
PathSplit(path) == PathSplitFrom(path, 1, << >>, << >>)

\* if _PATH_SPLIT_RE.match(part) or part == ""
KeptAsIs(part) == part = << >> \/ part[1] \in PathSeparators

RECURSIVE EncryptParts(_, _)
EncryptParts(parts, scheme) ==
    IF parts = << >> THEN << >>
    ELSE (IF KeptAsIs(Head(parts)) THEN Head(parts)
          ELSE SchemeEncrypt(scheme, Head(parts)))
         \o EncryptParts(Tail(parts), scheme)

EncryptPath(path, scheme) == EncryptParts(PathSplit(path), scheme)

RECURSIVE DecryptParts(_, _, _)
DecryptParts(parts, scheme, out) ==
    IF parts = << >> THEN TextOk(out)
    ELSE IF KeptAsIs(Head(parts))
    THEN DecryptParts(Tail(parts), scheme, out \o Head(parts))
    ELSE Bind(SchemeDecrypt(scheme, Head(parts)), LAMBDA t :
             IF t.st # "ok" THEN t
             ELSE DecryptParts(Tail(parts), scheme, out \o t.str))

DecryptPath(path, scheme) == DecryptParts(PathSplit(path), scheme, << >>)

\* _GLOB_SPLIT_RE: "{" "}" "\" "/" "." ","
GlobDelimiters == {123, 125, 92, 47, 46, 44}

RECURSIVE GlobSplitFrom(_, _, _, _)
GlobSplitFrom(pattern, i, part, parts) ==
    IF i > Len(pattern) THEN Append(parts, part)
    ELSE IF pattern[i] \in GlobDelimiters
    THEN GlobSplitFrom(pattern, i + 1, << >>,
                       parts \o <<part, <<pattern[i]>>>>)
    ELSE GlobSplitFrom(pattern, i + 1, Append(part, pattern[i]), parts)

\* _GLOB_SPLIT_RE.split(pattern)
GlobSplit(pattern) == GlobSplitFrom(pattern, 1, << >>, << >>)

\* "*"
Star == 42

\* A plausible slip: the test for "*" comes before the test for "**".
GlobPartStarFirst(part, scheme) ==
    IF part = << >> \/ part[1] \in GlobDelimiters THEN part
    ELSE IF \E i \in 1..Len(part) : part[i] = Star THEN <<Star>>
    ELSE IF part = <<Star, Star>> THEN part
    ELSE SchemeEncrypt(scheme, part)

\* The body of the loop of encrypt_glob: what is appended for one part.
GlobPart(part, scheme) ==
    IF part = << >> \/ part[1] \in GlobDelimiters THEN part
    ELSE IF part = <<Star, Star>> THEN part
    ELSE IF \E i \in 1..Len(part) : part[i] = Star THEN <<Star>>
    ELSE SchemeEncrypt(scheme, part)

RECURSIVE EncryptGlobParts(_, _)
EncryptGlobParts(parts, scheme) ==
    IF parts = << >> THEN << >>
    ELSE GlobPart(Head(parts), scheme)
         \o EncryptGlobParts(Tail(parts), scheme)

EncryptGlob(pattern, scheme) == EncryptGlobParts(GlobSplit(pattern), scheme)

----------------------------------------------------------------------------
(* json.loads, for the JSON the trailer branch of the client reads: text   *)
(* without whitespace made of strings without escapes, objects and arrays. *)
(* A value is [t, s, items]: t is "str", "obj" or "arr", s the characters  *)
(* of a string, items the members [k, v] of an object in the order written *)
(* (of an array, with k empty).                                            *)

JsonStr(chars) == [t |-> "str", s |-> chars, items |-> << >>]
JsonObj(items) == [t |-> "obj", s |-> << >>, items |-> items]
JsonArr(items) == [t |-> "arr", s |-> << >>, items |-> items]

JsonOk(v, pos) == [st |-> "ok", v |-> v, pos |-> pos]
JsonFail(exc) == [st |-> exc, v |-> JsonStr(<< >>), pos |-> 0]

\* The character at pos, -1 past the end.
JsonChar(text, pos) == IF pos < Len(text) THEN text[pos + 1] ELSE -1

\* A character that cannot stand in a string as it is: the quote, the
\* backslash, a control character.
JsonStringStop(c) == c = 34 \/ c = 92 \/ c < 32

\* The position of the quote that ends the string whose characters start
\* at pos; -1 when the end, a backslash or a control character comes first.
JsonStringEnd(text, pos) ==
    IF \A i \in (pos + 1)..Len(text) : ~JsonStringStop(text[i]) THEN -1
    ELSE LET i == CHOOSE i \in (pos + 1)..Len(text) :
                      /\ JsonStringStop(text[i])
                      /\ \A j \in (pos + 1)..(i - 1) : ~JsonStringStop(text[j])
         IN  IF text[i] = 34 THEN i - 1 ELSE -1

\* text[pos] is the opening quote.
JsonString(text, pos) ==
    Bind(JsonStringEnd(text, pos + 1), LAMBDA e :
        IF e < 0 THEN JsonFail("JSONDecodeError")
        ELSE JsonOk(JsonStr(SubSeq(text, pos + 2, e)), e + 1))

RECURSIVE JsonValue(_, _)
RECURSIVE JsonMember(_, _, _, _)

\* After a member: the closing bracket, or a comma and the next member.
JsonAfterMember(text, pos, is_object, items) ==
    IF JsonChar(text, pos) = (IF is_object THEN 125 ELSE 93)
    THEN JsonOk(IF is_object THEN JsonObj(items) ELSE JsonArr(items), pos + 1)
    ELSE IF JsonChar(text, pos) = 44
    THEN JsonMember(text, pos + 1, is_object, items)
    ELSE JsonFail("JSONDecodeError")

\* A value of the array, or "key":value of the object.
JsonMemberValue(text, pos, is_object, items, key) ==
    Bind(JsonValue(text, pos), LAMBDA v :
        IF v.st # "ok" THEN JsonFail("JSONDecodeError")
        ELSE JsonAfterMember(text, v.pos, is_object,
                             Append(items, [k |-> key, v |-> v.v])))

JsonMember(text, pos, is_object, items) ==
    IF ~is_object THEN JsonMemberValue(text, pos, FALSE, items, << >>)
    ELSE IF JsonChar(text, pos) # 34 THEN JsonFail("JSONDecodeError")
    ELSE Bind(JsonString(text, pos), LAMBDA k :
        IF k.st # "ok" \/ JsonChar(text, k.pos) # 58
        THEN JsonFail("JSONDecodeError")
        ELSE JsonMemberValue(text, k.pos + 1, TRUE, items, k.v.s))

JsonValue(text, pos) ==
    IF JsonChar(text, pos) = 34 THEN JsonString(text, pos)
    ELSE IF JsonChar(text, pos) = 123
    THEN IF JsonChar(text, pos + 1) = 125 THEN JsonOk(JsonObj(<< >>), pos + 2)
         ELSE JsonMember(text, pos + 1, TRUE, << >>)
    ELSE IF JsonChar(text, pos) = 91
    THEN IF JsonChar(text, pos + 1) = 93 THEN JsonOk(JsonArr(<< >>), pos + 2)
         ELSE JsonMember(text, pos + 1, FALSE, << >>)
    ELSE JsonFail("JSONDecodeError")

\* json.loads(bytes): the bytes are decoded, and the text must be one value
\* with nothing after it.
JsonLoads(data) ==
    Bind(Utf8Decode(data), LAMBDA u :
        IF u.st # "ok" THEN JsonFail(u.st)
        ELSE Bind(JsonValue(u.str, 0), LAMBDA v :
            IF v.st = "ok" /\ v.pos = Len(u.str) THEN v
            ELSE JsonFail("JSONDecodeError")))

JsonTruthy(v) == IF v.t = "str" THEN v.s # << >> ELSE v.items # << >>

JsonHas(obj, key) == \E i \in 1..Len(obj.items) : obj.items[i].k = key

\* dict.get(key, default) of a dict made by json.loads: the last member
\* with the key wins.
JsonGet(obj, key, default) ==
    IF ~JsonHas(obj, key) THEN default
    ELSE obj.items[CHOOSE i \in 1..Len(obj.items) :
                       /\ obj.items[i].k = key
                       /\ \A j \in (i + 1)..Len(obj.items) :
                             obj.items[j].k # key].v

----------------------------------------------------------------------------
(* client.py: _parse_proto_response, for a client built without a path     *)
(* encryption key over a workspace that holds none of the files named in   *)
(* the response.  The client reads a result through attributes             *)
(* (result.code_block, block.relative_workspace_path, rng.start_position)  *)
(* where the parsers of proto.py build dicts (codeBlock,                   *)
(* relativeWorkspacePath, startPosition): an attribute is identified with  *)
(* the dict key of the same field, and a field that was never set reads    *)
(* as its default.                                                         *)

KeyError == <<101, 114, 114, 111, 114>>               \* "error"
KeyMessage == <<109, 101, 115, 115, 97, 103, 101>>    \* "message"
KeyDetails == <<100, 101, 116, 97, 105, 108, 115>>    \* "details"
KeyDebug == <<100, 101, 98, 117, 103>>                \* "debug"
KeyDetail == <<100, 101, 116, 97, 105, 108>>          \* "detail"
\* "Unknown error"
UnknownError ==
    JsonStr(<<85, 110, 107, 110, 111, 119, 110, 32, 101, 114, 114, 111, 114>>)

SearchResult(chunks, metadata) == [chunks |-> chunks, metadata |-> metadata]

\* metadata: None, {"error": error_msg}, or
\* {"parse_error": str(e), "raw_length": len(data)}, the text of the
\* exception being kept as its type.
NoMetadata ==
    [kind |-> "None", error |-> JsonStr(<< >>), parse_error |-> "",
     raw_length |-> 0]
ErrorMetadata(error_msg) ==
    [kind |-> "error", error |-> error_msg, parse_error |-> "",
     raw_length |-> 0]
ParseErrorMetadata(exc, raw_length) ==
    [kind |-> "parse_error", error |-> JsonStr(<< >>), parse_error |-> exc,
     raw_length |-> raw_length]

\* data.find(byte)
FindByte(data, byte) ==
    IF \A i \in 1..Len(data) : data[i] # byte THEN -1
    ELSE (CHOOSE i \in 1..Len(data) :
              data[i] = byte /\ \A j \in 1..(i - 1) : data[j] # byte) - 1

MsgOk(msg) == [st |-> "ok", msg |-> msg]
MsgRaise(exc) == [st |-> exc, msg |-> JsonStr(<< >>)]

\* detail_info = details[0].get("debug", {}).get("details", {});
\* error_msg = detail_info.get("detail", error_msg)
TrailerDetail(details, error_msg) ==
    IF details.t = "obj" THEN MsgRaise("KeyError")
    ELSE IF details.t = "str" THEN MsgRaise("AttributeError")
    ELSE IF details.items[1].v.t # "obj" THEN MsgRaise("AttributeError")
    ELSE Bind(JsonGet(details.items[1].v, KeyDebug, JsonObj(<< >>)),
              LAMBDA debug :
        IF debug.t # "obj" THEN MsgRaise("AttributeError")
        ELSE Bind(JsonGet(debug, KeyDetails, JsonObj(<< >>)),
                  LAMBDA detail_info :
            IF detail_info.t # "obj" THEN MsgRaise("AttributeError")
            ELSE MsgOk(JsonGet(detail_info, KeyDetail, error_msg))))

\* error_msg of the trailer branch, from error_data = json.loads(...)
TrailerErrorMsg(error_data) ==
    IF error_data.t # "obj" THEN MsgRaise("AttributeError")
    ELSE Bind(JsonGet(error_data, KeyError, JsonObj(<< >>)), LAMBDA error :
        IF error.t # "obj" THEN MsgRaise("AttributeError")
        ELSE IF JsonTruthy(JsonGet(error, KeyDetails, JsonArr(<< >>)))
        THEN TrailerDetail(JsonGet(error, KeyDetails, JsonArr(<< >>)),
                           JsonGet(error, KeyMessage, UnknownError))
        ELSE MsgOk(JsonGet(error, KeyMessage, UnknownError)))

Returned(result) == [returned |-> TRUE, result |-> result]
NotReturned == [returned |-> FALSE, result |-> SearchResult(<< >>, NoMetadata)]

\* json_start = data.find(b"{"); if json_start != -1: ... return
\* SearchResult(chunks=[], metadata={"error": error_msg}); an exception on
\* the way is passed over.
TrailerJson(data, json_start) ==
    IF json_start = -1 THEN NotReturned
    ELSE Bind(JsonLoads(Slice(data, json_start, Len(data))), LAMBDA d :
        IF d.st # "ok" THEN NotReturned
        ELSE Bind(TrailerErrorMsg(d.v), LAMBDA m :
            IF m.st # "ok" THEN NotReturned
            ELSE Returned(SearchResult(<< >>, ErrorMetadata(m.msg)))))

\* if data and data[0] == 0x02: ...
TrailerBranch(data) ==
    IF data # << >> /\ data[1] = 2
    THEN TrailerJson(data, FindByte(data, 123))
    ELSE NotReturned

\* _read_chunk_contents: "" for a file the workspace does not hold.
ReadChunkContents(file_path, start_line, end_line) == << >>

\* content = contents or override_contents or file_contents or
\* original_contents; then, if still empty, the lines of the file.
ChunkContent(block) ==
    IF block.contents # << >> THEN block.contents
    ELSE IF block.overrideContents # << >> THEN block.overrideContents
    ELSE IF block.fileContents # << >> THEN block.fileContents
    ELSE IF block.originalContents # << >> THEN block.originalContents
    ELSE IF block.relativeWorkspacePath # << >>
    THEN ReadChunkContents(block.relativeWorkspacePath,
                           block.range.startPosition.line,
                           block.range.endPosition.line)
    ELSE << >>

CodeChunk(file_path, content, start_line, end_line, score) ==
    [file_path |-> file_path, content |-> content, start_line |-> start_line,
     end_line |-> end_line, score |-> score]

\* if file_path and self.path_encryption_key:
\*     try: file_path = decrypt_path(file_path, self._path_scheme)
\*     except Exception: pass
FilePathOf(path, key) ==
    IF path = << >> \/ ~key.present \/ key.s = << >> THEN path
    ELSE Bind(DecryptPath(path, BuildPathEncryptionScheme(key)), LAMBDA t :
             IF t.st = "ok" THEN t.str ELSE path)

\* The body of "for result in code_results"; key is the client's
\* path_encryption_key.
ChunkInto(chunks, result, key) ==
    IF ~result.codeBlock.present THEN chunks
    ELSE IF FilePathOf(result.codeBlock.relativeWorkspacePath, key) = << >>
    THEN chunks
    ELSE Append(chunks,
                CodeChunk(FilePathOf(result.codeBlock.relativeWorkspacePath,
                                     key),
                          ChunkContent(result.codeBlock),
                          result.codeBlock.range.startPosition.line,
                          result.codeBlock.range.endPosition.line,
                          result.score))

RECURSIVE ChunksOfResults(_, _, _, _)
ChunksOfResults(code_results, i, chunks, key) ==
    IF i > Len(code_results) THEN chunks
    ELSE ChunksOfResults(code_results, i + 1,
                         ChunkInto(chunks, code_results[i], key), key)

ChunksOk(chunks) == [st |-> "ok", chunks |-> chunks]
ChunksRaise(exc) == [st |-> exc, chunks |-> << >>]

\* for message in messages: code_results = parse_search_response(message)
RECURSIVE ChunksOfMessages(_, _, _, _)
ChunksOfMessages(messages, i, chunks, key) ==
    IF i > Len(messages) THEN ChunksOk(chunks)
    ELSE Bind(ParseSearchResponse(messages[i]), LAMBDA code_results :
        IF code_results.st # "ok" THEN ChunksRaise(code_results.st)
        ELSE ChunksOfMessages(messages, i + 1,
                              ChunksOfResults(code_results.value, 1, chunks,
                                              key),
                              key))

\* try: messages = decode_connect_envelope(data) ... except Exception as e
EnvelopeBranch(data, key) ==
    Bind(DecodeConnectEnvelope(data), LAMBDA env :
        IF env.st # "ok"
        THEN SearchResult(<< >>, ParseErrorMetadata(env.st, Len(data)))
        ELSE Bind(ChunksOfMessages(env.messages, 1, << >>, key), LAMBDA c :
            IF c.st # "ok"
            THEN SearchResult(<< >>, ParseErrorMetadata(c.st, Len(data)))
            ELSE SearchResult(c.chunks, NoMetadata)))

\* _parse_proto_response of a client built with the path_encryption_key
ParseProtoResponseOf(data, key) ==
    Bind(TrailerBranch(data), LAMBDA t :
        IF t.returned THEN t.result ELSE EnvelopeBranch(data, key))

\* _parse_proto_response of a client built without a path encryption key
ParseProtoResponse(data) == ParseProtoResponseOf(data, NoneStr)

----------------------------------------------------------------------------
(* The varint session: a value is encoded, the buffer may then be cut      *)
(* short or have its last byte marked as continued, a read position is     *)
(* chosen, and the buffer is decoded.                                      *)

MaxSmallValue == 40

VarintValues ==
    {ToPy(n) : n \in 0..MaxSmallValue}
    \cup {ToPy(n) : n \in {127, 128, 129, 255, 300, 16383, 16384,
                            2^21 - 1, 2^21, 2^28 - 1}}
    \cup {<<0, 1>>, <<5, 1>>, <<LimbBase - 1, 7>>, <<0, 8>>,
          <<LimbBase - 1, 15>>}

NoVarint == [st |-> "none", value |-> << >>, pos |-> 0]

VarintInit ==
    /\ v_n \in VarintValues
    /\ v_buf = << >>
    /\ v_pos = 0
    /\ v_res = NoVarint
    /\ v_pc = "start"
    /\ v_intact = TRUE

VarintIdle ==
    /\ v_n = << >>
    /\ v_buf = << >>
    /\ v_pos = 0
    /\ v_res = NoVarint
    /\ v_pc = "idle"
    /\ v_intact = TRUE

VEncode ==
    /\ v_pc = "start"
    /\ v_buf' = EncodeVarint(v_n)
    /\ v_pc' = "encoded"
    /\ UNCHANGED <<v_n, v_pos, v_res, v_intact, notVarintVars>>

\* The buffer ends mid-varint: its last k bytes are lost.
VTruncate ==
    /\ v_pc = "encoded"
    /\ v_intact
    /\ \E k \in 1..Len(v_buf) :
          v_buf' = SubSeq(v_buf, 1, Len(v_buf) - k)
    /\ v_intact' = FALSE
    /\ UNCHANGED <<v_n, v_pos, v_res, v_pc, notVarintVars>>

\* Malformed input: the last byte carries the continuation bit as well.
VSetContinuation ==
    /\ v_pc = "encoded"
    /\ v_intact
    /\ v_buf' = [v_buf EXCEPT ![Len(v_buf)] = 128 + (@ % 128)]
    /\ v_intact' = FALSE
    /\ UNCHANGED <<v_n, v_pos, v_res, v_pc, notVarintVars>>

VSeek ==
    /\ v_pc = "encoded"
    /\ v_pos = 0
    /\ \E p \in 1..(Len(v_buf) + 1) : v_pos' = p
    /\ UNCHANGED <<v_n, v_buf, v_res, v_pc, v_intact, notVarintVars>>

VDecode ==
    /\ v_pc = "encoded"
    /\ v_res' = DecodeVarint(v_buf, v_pos)
    /\ v_pc' = "decoded"
    /\ UNCHANGED <<v_n, v_buf, v_pos, v_intact, notVarintVars>>

VarintNext == VEncode \/ VTruncate \/ VSetContinuation \/ VSeek \/ VDecode

----------------------------------------------------------------------------
(* The field encoder session: a message is built field by field, as the    *)
(* request encoders do, each call appending what the encoder returns; the  *)
(* buffer built so far can be nested into an outer message.  f_log keeps,  *)
(* for every call, the encoder, whether its argument was the default and   *)
(* the bytes it returned.                                                  *)

MaxFields == 2

FieldNumbers == {1, 9, 16}
StringValues == {<< >>, <<97>>, <<233>>, <<115, 114, 99>>}
Int32Values == {ToPy(0), ToPy(1), ToPy(300)}
DoubleValues ==
    {NoneFloat, SomeFloat(FloatZero), SomeFloat(FloatPow2(FALSE, 0)),
     SomeFloat(FloatPow2(TRUE, -1))}

FieldInit ==
    /\ f_out = << >>
    /\ f_log = << >>

FieldIdle ==
    /\ f_out = << >>
    /\ f_log = << >>

FieldCall(kind, num, absent, zero, emitted) ==
    /\ Len(f_log) < MaxFields
    /\ f_log' = Append(f_log, [kind |-> kind, num |-> num, absent |-> absent,
                               zero |-> zero, emitted |-> emitted])
    /\ UNCHANGED notFieldVars

FEncodeString ==
    \E num \in FieldNumbers, value \in StringValues :
        LET emitted == EncodeString(num, value)
        IN  /\ FieldCall("string", num, value = << >>, FALSE, emitted)
            /\ f_out' = f_out \o emitted

FEncodeInt32 ==
    \E num \in FieldNumbers, value \in Int32Values :
        LET emitted == EncodeInt32(num, value)
        IN  /\ FieldCall("int32", num, value = ToPy(0), FALSE, emitted)
            /\ f_out' = f_out \o emitted

FEncodeDouble ==
    \E num \in FieldNumbers, value \in DoubleValues :
        LET emitted == EncodeDouble(num, value)
        IN  /\ FieldCall("double", num, ~value.present,
                         value.present /\ FloatIsZero(value.x), emitted)
            /\ f_out' = f_out \o emitted

FEncodeBool ==
    \E num \in FieldNumbers, value \in BOOLEAN :
        LET emitted == EncodeBool(num, value)
        IN  /\ FieldCall("bool", num, ~value, FALSE, emitted)
            /\ f_out' = f_out \o emitted

\* The buffer built so far becomes a nested message of an outer message.
FEncodeMessage ==
    \E num \in FieldNumbers :
        LET emitted == EncodeMessage(num, f_out)
        IN  /\ FieldCall("message", num, f_out = << >>, FALSE, emitted)
            /\ f_out' = emitted

FieldNext ==
    FEncodeString \/ FEncodeInt32 \/ FEncodeDouble \/ FEncodeBool
    \/ FEncodeMessage

----------------------------------------------------------------------------
(* The response body session: the backend writes a body frame by frame     *)
(* (plain messages, gzip messages, frames flagged compressed whose payload *)
(* is not gzip, trailer frames), a body may be cut short so that it ends   *)
(* in an incomplete frame, and the client then decodes what it received.   *)
(* Every byte string is a run of complete frames followed by nothing or    *)
(* by an incomplete frame, so the bodies reach every shape the decoder     *)
(* distinguishes.  e_log keeps, per complete frame, how it was made.       *)

MaxFrames == 2

\* Message payloads: empty, one byte with an unknown wire type, a search
\* response with one result (path "a"), and two bytes that start like gzip.
EnvPayloads == {<< >>, <<7>>, <<10, 5, 10, 3, 10, 1, 97>>, <<31, 139>>}

\* Payloads that gzip.decompress rejects.
NotGzipPayloads == {<<7>>, <<31, 139>>, <<31, 139, 0, 0, 1>>}

\* {"error":{"message":"x"}}
TrailerWithMessage ==
    <<123, 34, 101, 114, 114, 111, 114, 34, 58, 123, 34, 109, 101, 115, 115,
      97, 103, 101, 34, 58, 34, 120, 34, 125, 125>>

\* {"error":{"details":[{"debug":{"details":{"detail":"y"}}}]}}
TrailerWithDetail ==
    <<123, 34, 101, 114, 114, 111, 114, 34, 58, 123, 34, 100, 101, 116, 97,
      105, 108, 115, 34, 58, 91, 123, 34, 100, 101, 98, 117, 103, 34, 58, 123,
      34, 100, 101, 116, 97, 105, 108, 115, 34, 58, 123, 34, 100, 101, 116,
      97, 105, 108, 34, 58, 34, 121, 34, 125, 125, 125, 93, 125, 125>>

\* Trailer payloads: the two errors, {} and an empty trailer.
TrailerPayloads ==
    {TrailerWithMessage, TrailerWithDetail, <<123, 125>>, << >>}

\* Incomplete frames: fewer than 5 bytes, or a header declaring more bytes
\* than follow.
EnvTails ==
    {<<0>>, <<0, 0, 0, 0>>, <<0, 0, 0, 0, 2, 9>>, <<1, 0, 0, 1, 0>>,
     <<2, 0, 0, 0, 1>>, <<0, 255, 255, 255, 255, 7>>}

NoEnvResult == [st |-> "none", messages |-> << >>]
NoSearchResult == SearchResult(<< >>, NoMetadata)

EnvInit ==
    /\ e_stream = << >>
    /\ e_log = << >>
    /\ e_pc = "build"
    /\ e_res = NoEnvResult
    /\ e_parsed = NoSearchResult

EnvIdle ==
    /\ e_stream = << >>
    /\ e_log = << >>
    /\ e_pc = "idle"
    /\ e_res = NoEnvResult
    /\ e_parsed = NoSearchResult

EnvWrite(frame, kind, flags, payload, orig) ==
    /\ e_pc = "build"
    /\ Len(e_log) < MaxFrames
    /\ e_stream' = e_stream \o frame
    /\ e_log' = Append(e_log, [kind |-> kind, flags |-> flags,
                               payload |-> payload, orig |-> orig])

EWrapPlain ==
    \E p \in EnvPayloads :
        /\ EnvWrite(WrapConnectEnvelope(p, FALSE), "plain", 0, p, p)
        /\ UNCHANGED <<e_pc, e_res, e_parsed, notEnvVars>>

EWrapGzip ==
    \E p \in EnvPayloads :
        /\ EnvWrite(WrapConnectEnvelope(GzipCompress(p), TRUE), "gzip", 1,
                    GzipCompress(p), p)
        /\ UNCHANGED <<e_pc, e_res, e_parsed, notEnvVars>>

EWrapNotGzip ==
    \E raw \in NotGzipPayloads :
        /\ EnvWrite(WrapConnectEnvelope(raw, TRUE), "notgzip", 1, raw, raw)
        /\ UNCHANGED <<e_pc, e_res, e_parsed, notEnvVars>>

EWriteTrailer ==
    \E flags \in {2, 3}, p \in TrailerPayloads :
        /\ EnvWrite(EnvelopeFrame(flags, p), "trailer", flags, p, p)
        /\ UNCHANGED <<e_pc, e_res, e_parsed, notEnvVars>>

ECutShort ==
    /\ e_pc = "build"
    /\ \E tail \in EnvTails : e_stream' = e_stream \o tail
    /\ e_pc' = "cut"
    /\ UNCHANGED <<e_log, e_res, e_parsed, notEnvVars>>

EDecode ==
    /\ e_pc \in {"build", "cut"}
    /\ e_res' = DecodeConnectEnvelope(e_stream)
    /\ e_pc' = IF e_pc = "cut" THEN "decoded_cut" ELSE "decoded"
    /\ UNCHANGED <<e_stream, e_log, e_parsed, notEnvVars>>

\* The client parses the body it received.
EParseResponse ==
    /\ e_pc \in {"build", "cut"}
    /\ e_parsed' = ParseProtoResponse(e_stream)
    /\ e_pc' = IF e_pc = "cut" THEN "parsed_cut" ELSE "parsed"
    /\ UNCHANGED <<e_stream, e_log, e_res, notEnvVars>>

EnvNext ==
    EWrapPlain \/ EWrapGzip \/ EWrapNotGzip \/ EWriteTrailer \/ ECutShort
    \/ EDecode \/ EParseResponse

----------------------------------------------------------------------------
(* A decoder run one loop pass at a time.  d_fn names the decoder, d_data  *)
(* its buffer, d_pos and d_end its read position and limit, d_acc what it  *)
(* has built (for skip_field: the wire type).  d_prev is the position at   *)
(* the start of the last completed pass, d_iters the number of completed   *)
(* passes and d_calls the buffers the last pass handed to recursive calls  *)
(* of parse_search_response.  The calls a pass makes are evaluated with    *)
(* the operators above.                                                    *)

MaxBufLen == 3

\* The bytes 0..7 are the tags of field 0 with each wire type (and small
\* lengths and values), 10 and 26 the tags of the length-delimited fields 1
\* and 3, 128 a byte with the continuation bit.
DecoderBytes == (0..7) \cup {10, 26, 128}

RECURSIVE BuffersOfLen(_)
BuffersOfLen(n) ==
    IF n = 0 THEN {<< >>}
    ELSE {Append(b, x) : b \in BuffersOfLen(n - 1), x \in DecoderBytes}

DecoderBuffers == UNION {BuffersOfLen(n) : n \in 0..MaxBufLen}

\* Bodies for the envelope decoder: up to two pieces, each a complete
\* frame or an incomplete one.
EnvelopePieces ==
    {EnvelopeFrame(fl, p) : fl \in {0, 1, 2}, p \in {<< >>, <<7>>}}
    \cup EnvTails \cup {<< >>}

EnvelopeBuffers == {a \o b : a \in EnvelopePieces, b \in EnvelopePieces}

ProtoDecoders ==
    {"parse_search_response", "parse_code_result_with_classification",
     "parse_code_result", "parse_code_block", "parse_range",
     "parse_position"}

DecoderStart(fn) ==
    IF fn = "parse_search_response" THEN << >>
    ELSE IF fn = "parse_code_result_with_classification" THEN NoneResult
    ELSE IF fn = "parse_code_result" THEN NewCodeResult
    ELSE IF fn = "parse_code_block" THEN NewCodeBlock
    ELSE IF fn = "parse_range" THEN NewRange
    ELSE IF fn = "parse_position" THEN NewPosition
    ELSE << >>

DecInit ==
    /\ \/ /\ d_fn \in ProtoDecoders
          /\ d_data \in DecoderBuffers
          /\ d_acc = DecoderStart(d_fn)
       \/ /\ d_fn = "skip_field"
          /\ d_data \in DecoderBuffers
          /\ d_acc \in 0..7
       \/ /\ d_fn = "decode_connect_envelope"
          /\ d_data \in EnvelopeBuffers
          /\ d_acc = << >>
    /\ d_pos = 0
    /\ d_end = Len(d_data)
    /\ d_st = "run"
    /\ d_prev = 0
    /\ d_iters = 0
    /\ d_calls = << >>

DecIdle ==
    /\ d_fn = "none"
    /\ d_data = << >>
    /\ d_pos = 0
    /\ d_end = 0
    /\ d_acc = << >>
    /\ d_st = "idle"
    /\ d_prev = 0
    /\ d_iters = 0
    /\ d_calls = << >>

\* The pass completed and the loop goes on (or, with ret, the function
\* returned from inside the pass).
DecPassed(pos, acc, calls, ret) ==
    /\ d_pos' = pos
    /\ d_acc' = acc
    /\ d_prev' = d_pos
    /\ d_iters' = d_iters + 1
    /\ d_calls' = calls
    /\ d_st' = IF ret THEN "returned" ELSE "run"
    /\ UNCHANGED <<d_fn, d_data, d_end, notDecVars>>

\* The run ended: the loop test failed, a break was taken, or an exception
\* left the function.
DecEnded(st, pos) ==
    /\ d_st' = st
    /\ d_pos' = pos
    /\ UNCHANGED <<d_fn, d_data, d_end, d_acc, d_prev, d_iters, d_calls,
                   notDecVars>>

DecPass(it) ==
    IF d_pos < d_end
    THEN IF it.st = "ok" THEN DecPassed(it.pos, it.acc, << >>, FALSE)
         ELSE DecEnded(it.st, d_pos)
    ELSE DecEnded("returned", d_pos)

DecPassClassified(it) ==
    IF d_pos < d_end
    THEN IF it.st = "ok" THEN DecPassed(it.pos, it.acc, << >>, it.ret)
         ELSE DecEnded(it.st, d_pos)
    ELSE DecEnded("returned", d_pos)

DecPassResponse(it) ==
    IF d_pos < d_end
    THEN IF it.st = "ok" THEN DecPassed(it.pos, it.acc, it.calls, FALSE)
         ELSE DecEnded(it.st, d_pos)
    ELSE DecEnded("returned", d_pos)

\* skip_field has a loop for wire type 0 only; for the other wire types
\* it returns at once.
DecPassSkip(it, k) ==
    IF d_acc = 0
    THEN IF it.st # "ok" THEN DecEnded(it.st, d_pos)
         ELSE DecPassed(it.pos, d_acc, << >>, ~it.more)
    ELSE IF k.st = "ok" THEN DecEnded("returned", k.pos)
         ELSE DecEnded(k.st, d_pos)

DecPassEnvelope(it) ==
    IF d_pos < Len(d_data)
    THEN IF it.ctl = "continue"
         THEN DecPassed(it.pos, it.messages, << >>, FALSE)
         ELSE IF it.ctl = "break" THEN DecEnded("returned", it.pos)
         ELSE DecEnded(it.ctl, d_pos)
    ELSE DecEnded("returned", d_pos)

DStepPosition ==
    /\ d_fn = "parse_position" /\ d_st = "run"
    /\ DecPass(ParsePositionIteration(d_data, d_pos, d_acc))

DStepRange ==
    /\ d_fn = "parse_range" /\ d_st = "run"
    /\ DecPass(ParseRangeIteration(d_data, d_pos, d_acc))

DStepCodeBlock ==
    /\ d_fn = "parse_code_block" /\ d_st = "run"
    /\ DecPass(ParseCodeBlockIteration(d_data, d_pos, d_acc))

DStepCodeResult ==
    /\ d_fn = "parse_code_result" /\ d_st = "run"
    /\ DecPass(ParseCodeResultIteration(d_data, d_pos, d_acc))

DStepClassified ==
    /\ d_fn = "parse_code_result_with_classification" /\ d_st = "run"
    /\ DecPassClassified(ClassifiedIteration(d_data, d_pos, d_acc))

DStepSearchResponse ==
    /\ d_fn = "parse_search_response" /\ d_st = "run"
    /\ DecPassResponse(SearchResponseIteration(d_data, d_pos, d_acc))

DStepSkipField ==
    /\ d_fn = "skip_field" /\ d_st = "run"
    /\ DecPassSkip(SkipVarintIteration(d_data, d_pos),
                   SkipField(d_data, d_pos, d_acc))

DStepEnvelope ==
    /\ d_fn = "decode_connect_envelope" /\ d_st = "run"
    /\ DecPassEnvelope(EnvIteration(d_data, d_pos, d_acc))

DecNext ==
    DStepPosition \/ DStepRange \/ DStepCodeBlock \/ DStepCodeResult
    \/ DStepClassified \/ DStepSearchResponse \/ DStepSkipField
    \/ DStepEnvelope

----------------------------------------------------------------------------
(* messages.py: the response messages, written to the wire with the field  *)
(* encoders, and the dict the parsers build for a message.                 *)

Position(line, column) == [line |-> line, column |-> column]
Range(start_position, end_position) ==
    [start_position |-> start_position, end_position |-> end_position]
CodeBlock(relative_workspace_path, file_contents, range, contents, override_contents, original_contents) ==
    [relative_workspace_path |-> relative_workspace_path,
     file_contents |-> file_contents, range |-> range, contents |-> contents,
     override_contents |-> override_contents,
     original_contents |-> original_contents]
CodeResult(code_block, score) == [code_block |-> code_block, score |-> score]

EncodePosition(m) == EncodeInt32(1, m.line) \o EncodeInt32(2, m.column)

EncodeRange(m) ==
    EncodeMessage(1, EncodePosition(m.start_position))
    \o EncodeMessage(2, EncodePosition(m.end_position))

EncodeCodeBlock(m) ==
    EncodeString(1, m.relative_workspace_path)
    \o EncodeString(2, m.file_contents)
    \o EncodeMessage(3, EncodeRange(m.range))
    \o EncodeString(4, m.contents)
    \o EncodeString(6, m.override_contents)
    \o EncodeString(7, m.original_contents)

EncodeCodeResult(m) ==
    EncodeMessage(1, EncodeCodeBlock(m.code_block)) \o EncodeDouble(2, m.score)

\* One entry of a response: of SearchRepositoryResponse.code_results
\* (field 1, a CodeResult) or of SemSearchResponse.code_results (field 3,
\* a CodeResultWithClassification holding the CodeResult in its field 1).
EncodeResponseItem(item) ==
    IF item.field = 1 THEN EncodeMessage(1, EncodeCodeResult(item.result))
    ELSE EncodeMessage(3, EncodeMessage(1, EncodeCodeResult(item.result)))

\* The dicts of the parsers for a message that was written as above: a
\* sub-message with no bytes is not on the wire and stays the empty dict.
DictOfPosition(m) ==
    IF EncodePosition(m) = << >> THEN EmptyPosition
    ELSE [present |-> TRUE, line |-> m.line, column |-> m.column]

DictOfRange(m) ==
    [startPosition |-> DictOfPosition(m.start_position),
     endPosition |-> DictOfPosition(m.end_position)]

DictOfCodeBlock(m) ==
    [present |-> TRUE, relativeWorkspacePath |-> m.relative_workspace_path,
     contents |-> m.contents, range |-> DictOfRange(m.range),
     fileContents |-> m.file_contents,
     overrideContents |-> m.override_contents,
     originalContents |-> m.original_contents]

DictOfCodeResult(m) ==
    [codeBlock |-> DictOfCodeBlock(m.code_block),
     score |-> IF m.score.present THEN m.score.x ELSE FloatZero]

----------------------------------------------------------------------------
(* The response session: a response is written entry by entry, its end may *)
(* be followed by the beginning of a further entry that was cut off, or a  *)
(* plain response may be nested into the field 1 of a wrapping response,   *)
(* and parse_search_response reads it.                                     *)

MaxResults == 2

\* <<path, line, contents, override_contents, score>> of the results a
\* response may hold: a file name alone; a path with a range of lines
\* beyond 127 and contents; the same with a score as well; a path with
\* override contents only.
ResponseShapes ==
    {<<<<97>>, ToPy(0), << >>, << >>, NoneFloat>>,
     <<<<97, 47, 98>>, ToPy(300), <<120>>, << >>, NoneFloat>>,
     <<<<97, 47, 98>>, ToPy(3), <<120>>, << >>,
       SomeFloat(FloatPow2(FALSE, 0))>>,
     <<<<97, 47, 98>>, ToPy(0), << >>, <<111>>, NoneFloat>>}

ResponseResults ==
    {CodeResult(CodeBlock(sh[1], << >>,
                          Range(Position(sh[2], ToPy(0)),
                                Position(sh[2], ToPy(0))),
                          sh[3], sh[4], << >>),
                sh[5]) : sh \in ResponseShapes}

ResponseItems == [field : {1, 3}, result : ResponseResults]

\* The entry whose beginning follows a response that was cut off.
CutItems == {i \in ResponseItems : i.result.score.present}

NoResponse == [st |-> "none", value |-> << >>]

RespInit ==
    /\ r_items = << >>
    /\ r_data = << >>
    /\ r_cut = "no"
    /\ r_nested = FALSE
    /\ r_out = NoResponse
    /\ r_pc = "build"

RespIdle ==
    /\ r_items = << >>
    /\ r_data = << >>
    /\ r_cut = "no"
    /\ r_nested = FALSE
    /\ r_out = NoResponse
    /\ r_pc = "idle"

RAddResult ==
    /\ r_pc = "build"
    /\ Len(r_items) < MaxResults
    /\ \E item \in ResponseItems :
          /\ r_items' = Append(r_items, item)
          /\ r_data' = r_data \o EncodeResponseItem(item)
    /\ UNCHANGED <<r_cut, r_nested, r_out, r_pc, notRespVars>>

\* The body ends inside a further entry: after its tag, inside its payload.
RCutField ==
    /\ r_pc = "build"
    /\ r_items # << >>
    /\ \E item \in CutItems :
          \E k \in 1..(Len(EncodeResponseItem(item)) - 1) :
              r_data' = r_data \o Slice(EncodeResponseItem(item), 0, k)
    /\ r_cut' = "field"
    /\ r_pc' = "cut"
    /\ UNCHANGED <<r_items, r_nested, r_out, notRespVars>>

\* The body ends inside the two-byte length of a further entry.
RCutVarint ==
    /\ r_pc = "build"
    /\ r_items # << >>
    /\ \E field \in {1, 3} : \E length \in {128, 300} :
          r_data' = r_data \o EncodeVarint(Tag(field, 2))
                           \o Slice(EncodeVarint(ToPy(length)), 0, 1)
    /\ r_cut' = "varint"
    /\ r_pc' = "cut"
    /\ UNCHANGED <<r_items, r_nested, r_out, notRespVars>>

\* The backend sends a plain response (entries at field 1 only) as the
\* field 1 of a wrapping response.
RNest ==
    /\ r_pc = "build"
    /\ r_items # << >>
    /\ \A i \in 1..Len(r_items) : r_items[i].field = 1
    /\ r_data' = EncodeMessage(1, r_data)
    /\ r_nested' = TRUE
    /\ r_pc' = "nested"
    /\ UNCHANGED <<r_items, r_cut, r_out, notRespVars>>

RParse ==
    /\ r_pc \in {"build", "cut", "nested"}
    /\ r_out' = ParseSearchResponse(r_data)
    /\ r_pc' = "parsed"
    /\ UNCHANGED <<r_items, r_data, r_cut, r_nested, notRespVars>>

RespNext == RAddResult \/ RCutField \/ RCutVarint \/ RNest \/ RParse

----------------------------------------------------------------------------
(* The message session: a message of one of the response schemas is        *)
(* written to the wire as a sequence of fields (m_parts), fields with      *)
(* field numbers no schema knows may be put between them, the message may  *)
(* be nested into a message of the next schema up to a whole response, and *)
(* the parser of its schema reads it.  m_plain is the same wire without    *)
(* the unknown fields.                                                     *)

MaxUnknown == 1

PathAB == <<97, 47, 98>>                \* "a/b"

DefaultPosition == Position(ToPy(0), ToPy(0))
DefaultRange == Range(DefaultPosition, DefaultPosition)
DefaultCodeBlock == CodeBlock(<< >>, << >>, DefaultRange, << >>, << >>, << >>)

\* -1.5, and the score field holding it as a 32-bit float (wire type 5).
MinusOneAndHalf == Float(TRUE, 1023, <<0, 8388608>>)
FloatScoreField == <<21, 0, 0, 192, 191>>

Positions ==
    {DefaultPosition, Position(ToPy(3), ToPy(0)), Position(ToPy(0), ToPy(1)),
     Position(ToPy(300), ToPy(1))}

Ranges ==
    {Range(a, b) : a \in {DefaultPosition, Position(ToPy(3), ToPy(0))},
                   b \in {DefaultPosition, Position(ToPy(300), ToPy(1))}}

\* Each of the four contents fields empty or not beside a path; without
\* a path, the default code block and one with the override contents alone.
CodeBlocks ==
    {CodeBlock(PathAB, f, DefaultRange, c, o, g) :
        f \in {<< >>, <<102>>}, c \in {<< >>, <<99>>}, o \in {<< >>, <<111>>},
        g \in {<< >>, <<103>>}}
    \cup {DefaultCodeBlock,
          CodeBlock(<< >>, << >>, DefaultRange, << >>, <<111>>, << >>)}

CodeResults ==
    {CodeResult(b, sc) :
        b \in {DefaultCodeBlock,
               CodeBlock(PathAB, << >>, DefaultRange, << >>, << >>, << >>),
               CodeBlock(PathAB, << >>,
                         Range(Position(ToPy(3), ToPy(0)), DefaultPosition),
                         << >>, <<111>>, << >>)},
        sc \in {NoneFloat, SomeFloat(FloatPow2(FALSE, 0)),
                SomeFloat(MinusOneAndHalf)}}

MessageKinds == {"Position", "Range", "CodeBlock", "CodeResult"}

MessagesOf(kind) ==
    IF kind = "Position" THEN Positions
    ELSE IF kind = "Range" THEN Ranges
    ELSE IF kind = "CodeBlock" THEN CodeBlocks
    ELSE CodeResults

IsWritten(part) == part # << >>

\* The fields that are on the wire: an encoder that returned b"" wrote none.
Written(parts) == SelectSeq(parts, IsWritten)

RECURSIVE Flat(_)
Flat(parts) == IF parts = << >> THEN << >> ELSE parts[1] \o Flat(Tail(parts))

\* The fields of a message as the field encoders write them, in the order
\* of the field numbers.
FieldsOf(kind, m) ==
    IF kind = "Position"
    THEN <<EncodeInt32(1, m.line), EncodeInt32(2, m.column)>>
    ELSE IF kind = "Range"
    THEN <<EncodeMessage(1, EncodePosition(m.start_position)),
           EncodeMessage(2, EncodePosition(m.end_position))>>
    ELSE IF kind = "CodeBlock"
    THEN <<EncodeString(1, m.relative_workspace_path),
           EncodeString(2, m.file_contents),
           EncodeMessage(3, EncodeRange(m.range)),
           EncodeString(4, m.contents),
           EncodeString(6, m.override_contents),
           EncodeString(7, m.original_contents)>>
    ELSE <<EncodeMessage(1, EncodeCodeBlock(m.code_block)),
           EncodeDouble(2, m.score)>>

\* What a backend may send for a message: the fields in the order of their
\* numbers; for a CodeResult also the score ahead of the code block, and
\* the score as a 32-bit float.
WiresOf(kind, m) ==
    IF kind # "CodeResult" THEN {Written(FieldsOf(kind, m))}
    ELSE {Written(<<FieldsOf(kind, m)[1], sc>>) : sc \in
             {EncodeDouble(2, m.score)}
             \cup (IF m.score = SomeFloat(MinusOneAndHalf)
                   THEN {FloatScoreField} ELSE {})}
         \cup
         {Written(<<sc, FieldsOf(kind, m)[1]>>) : sc \in
             {EncodeDouble(2, m.score)}
             \cup (IF m.score = SomeFloat(MinusOneAndHalf)
                   THEN {FloatScoreField} ELSE {})}

\* Fields of the numbers 15 and 16, which no schema has, one per wire type
\* that skip_field knows: a two-byte varint, 8 bytes, a two-byte tag with
\* two bytes of payload, 4 bytes.
UnknownFields ==
    {<<120, 172, 2>>,
     <<121, 1, 2, 3, 4, 5, 6, 7, 8>>,
     <<130, 1, 2, 10, 1>>,
     <<125, 1, 2, 3, 4>>}

InsertAt(parts, k, part) ==
    SubSeq(parts, 1, k) \o <<part>> \o SubSeq(parts, k + 1, Len(parts))

ParseMessage(kind, data) ==
    IF kind = "Position" THEN ParsePosition(data, 0, Len(data))
    ELSE IF kind = "Range" THEN ParseRange(data, 0, Len(data))
    ELSE IF kind = "CodeBlock" THEN ParseCodeBlock(data, 0, Len(data))
    ELSE IF kind = "CodeResult" THEN ParseCodeResult(data, 0, Len(data))
    ELSE ParseSearchResponse(data)

NoMessage == [st |-> "none", value |-> << >>]

MsgInit ==
    /\ m_kind \in MessageKinds
    /\ m_msg \in MessagesOf(m_kind)
    /\ m_parts \in WiresOf(m_kind, m_msg)
    /\ m_plain = Flat(m_parts)
    /\ m_unknown = 0
    /\ m_out = NoMessage
    /\ m_pc = "build"

MsgIdle ==
    /\ m_kind = "none"
    /\ m_msg = << >>
    /\ m_parts = << >>
    /\ m_plain = << >>
    /\ m_unknown = 0
    /\ m_out = NoMessage
    /\ m_pc = "idle"

\* A field with an unknown number goes before, between or after the fields
\* of a message that has fields.
MInsertUnknown ==
    /\ m_pc = "build"
    /\ m_unknown < MaxUnknown
    /\ m_parts # << >>
    /\ \E u \in UnknownFields : \E k \in 0..Len(m_parts) :
          m_parts' = InsertAt(m_parts, k, u)
    /\ m_unknown' = m_unknown + 1
    /\ UNCHANGED <<m_kind, m_msg, m_plain, m_out, m_pc, notMsgVars>>

\* The message becomes a field of a message of the next schema.
MNested(kind, msg, parts, plain) ==
    /\ m_pc = "build"
    /\ m_kind' = kind
    /\ m_msg' = msg
    /\ m_parts' = Written(parts)
    /\ m_plain' = plain
    /\ UNCHANGED <<m_unknown, m_out, m_pc, notMsgVars>>

MWrapRange ==
    /\ m_kind = "Position"
    /\ MNested("Range", Range(m_msg, DefaultPosition),
               <<EncodeMessage(1, Flat(m_parts))>>,
               EncodeMessage(1, m_plain))

MWrapCodeBlock ==
    /\ m_kind = "Range"
    /\ MNested("CodeBlock",
               CodeBlock(PathAB, << >>, m_msg, <<99>>, << >>, << >>),
               <<EncodeString(1, PathAB), EncodeMessage(3, Flat(m_parts)),
                 EncodeString(4, <<99>>)>>,
               EncodeString(1, PathAB) \o EncodeMessage(3, m_plain)
                   \o EncodeString(4, <<99>>))

MWrapCodeResult ==
    /\ m_kind = "CodeBlock"
    /\ MNested("CodeResult", CodeResult(m_msg, SomeFloat(FloatPow2(FALSE, 0))),
               <<EncodeMessage(1, Flat(m_parts)),
                 EncodeDouble(2, SomeFloat(FloatPow2(FALSE, 0)))>>,
               EncodeMessage(1, m_plain)
                   \o EncodeDouble(2, SomeFloat(FloatPow2(FALSE, 0))))

\* The CodeResult becomes the one entry of a response: at field 1, or in a
\* classification wrapper at field 3.
MWrapResponse ==
    /\ m_kind = "CodeResult"
    /\ \E field \in {1, 3} :
          MNested("Response", <<[field |-> field, result |-> m_msg]>>,
                  <<IF field = 1 THEN EncodeMessage(1, Flat(m_parts))
                    ELSE EncodeMessage(3, EncodeMessage(1, Flat(m_parts)))>>,
                  IF field = 1 THEN EncodeMessage(1, m_plain)
                  ELSE EncodeMessage(3, EncodeMessage(1, m_plain)))

MDecode ==
    /\ m_pc = "build"
    /\ m_out' = ParseMessage(m_kind, Flat(m_parts))
    /\ m_pc' = "decoded"
    /\ UNCHANGED <<m_kind, m_msg, m_parts, m_plain, m_unknown, notMsgVars>>

MsgNext ==
    MInsertUnknown \/ MWrapRange \/ MWrapCodeBlock \/ MWrapCodeResult
    \/ MWrapResponse \/ MDecode

----------------------------------------------------------------------------
(* The request session: the keyword arguments of a request start out with  *)
(* every field empty, zero or false and every optional argument absent     *)
(* (relative_workspace_path, which only encode_repository_info takes, at   *)
(* its default "."); some arguments are then set, and one of the request   *)
(* encoders is called with them.                                           *)

MaxArgsSet == 2

EmptyArgs ==
    [query |-> << >>, repo_name |-> << >>, repo_owner |-> << >>,
     top_k |-> ToPy(0), rerank |-> FALSE, glob_filter |-> NoneStr,
     remote_url |-> NoneStr, is_tracked |-> FALSE, is_local |-> FALSE,
     num_files |-> NoneInt, orthogonal_transform_seed |-> NoneFloat,
     preferred_embedding_model |-> NoneInt, workspace_uri |-> NoneStr,
     preferred_db_provider |-> NoneInt, relative_workspace_path |-> DotPath]

\* The arguments the request encoders take.
RequestArgNames ==
    {"query", "repo_name", "repo_owner", "top_k", "rerank", "glob_filter",
     "remote_url", "is_tracked", "is_local", "num_files",
     "orthogonal_transform_seed", "preferred_embedding_model",
     "workspace_uri", "preferred_db_provider"}

ArgNames == RequestArgNames \cup {"relative_workspace_path"}

\* The values an argument may be set to.
ArgValues(key) ==
    IF key \in {"query", "repo_name", "repo_owner"} THEN {<<113>>}
    ELSE IF key = "top_k" THEN {ToPy(10)}
    ELSE IF key \in {"rerank", "is_tracked", "is_local"} THEN {TRUE}
    ELSE IF key \in {"glob_filter", "remote_url", "workspace_uri"}
    THEN {SomeStr(<< >>), SomeStr(<<117>>)}
    ELSE IF key = "orthogonal_transform_seed"
    THEN {SomeFloat(FloatZero), SomeFloat(FloatPow2(FALSE, 0))}
    ELSE IF key = "relative_workspace_path" THEN {<< >>}
    ELSE {SomeInt(ToPy(0)), SomeInt(ToPy(5))}

ReqInit ==
    /\ q_args = EmptyArgs
    /\ q_set = 0
    /\ q_fn = "none"
    /\ q_out = << >>
    /\ q_pc = "args"

ReqIdle ==
    /\ q_args = EmptyArgs
    /\ q_set = 0
    /\ q_fn = "none"
    /\ q_out = << >>
    /\ q_pc = "idle"

QSetArg ==
    /\ q_pc = "args"
    /\ q_set < MaxArgsSet
    /\ \E key \in ArgNames :
          /\ q_args[key] = EmptyArgs[key]
          /\ \E value \in ArgValues(key) :
                q_args' = [q_args EXCEPT ![key] = value]
    /\ q_set' = q_set + 1
    /\ UNCHANGED <<q_fn, q_out, q_pc, notReqVars>>

QCalled(fn, out) ==
    /\ q_pc = "args"
    /\ q_fn' = fn
    /\ q_out' = out
    /\ q_pc' = "encoded"
    /\ UNCHANGED <<q_args, q_set, notReqVars>>

QEncodeRepositoryInfo ==
    QCalled("encode_repository_info", EncodeRepositoryInfo(q_args))

QEncodeSearchRepositoryRequest ==
    QCalled("encode_search_repository_request",
            EncodeSearchRepositoryRequest(q_args))

QEncodeSemSearchRequest ==
    QCalled("encode_sem_search_request", EncodeSemSearchRequest(q_args))

ReqNext ==
    QSetArg \/ QEncodeRepositoryInfo \/ QEncodeSearchRepositoryRequest
    \/ QEncodeSemSearchRequest

----------------------------------------------------------------------------
(* The path session: a path is written character by character, encrypted   *)
(* under the scheme built from the configured key, and decrypted again     *)
(* under the same scheme.                                                  *)

MaxPathLen == 3

\* "a", "é", NUL and the three separators
PathChars == {97, 233, 0} \cup PathSeparators

\* path_encryption_key: None, "", "AAEC", "_-8"
PathKeys ==
    {NoneStr, SomeStr(<< >>), SomeStr(<<65, 65, 69, 67>>),
     SomeStr(<<95, 45, 56>>)}

NoText == [st |-> "none", str |-> << >>]

PathInit ==
    /\ p_path = << >>
    /\ p_key = NoneStr
    /\ p_enc = << >>
    /\ p_dec = NoText
    /\ p_pc = "build"

PathIdle ==
    /\ p_path = << >>
    /\ p_key = NoneStr
    /\ p_enc = << >>
    /\ p_dec = NoText
    /\ p_pc = "idle"

PAppendChar ==
    /\ p_pc = "build"
    /\ Len(p_path) < MaxPathLen
    /\ \E c \in PathChars : p_path' = Append(p_path, c)
    /\ UNCHANGED <<p_key, p_enc, p_dec, p_pc, notPathVars>>

PEncryptPath ==
    /\ p_pc = "build"
    /\ \E key \in PathKeys :
          /\ p_key' = key
          /\ p_enc' = EncryptPath(p_path, BuildPathEncryptionScheme(key))
    /\ p_pc' = "encrypted"
    /\ UNCHANGED <<p_path, p_dec, notPathVars>>

PDecryptPath ==
    /\ p_pc = "encrypted"
    /\ p_dec' = DecryptPath(p_enc, BuildPathEncryptionScheme(p_key))
    /\ p_pc' = "decrypted"
    /\ UNCHANGED <<p_path, p_key, p_enc, notPathVars>>

PathNext == PAppendChar \/ PEncryptPath \/ PDecryptPath

----------------------------------------------------------------------------
(* The glob session: a glob pattern is written piece by piece and          *)
(* encrypted under the scheme built from the configured key.  The pattern  *)
(* is the pieces one after another.                                        *)

MaxGlobPieces == 3

\* "src", "c", "a*b", "**", "*", "/", ".", ",", "{", "}"
GlobPieces ==
    {<<115, 114, 99>>, <<99>>, <<97, Star, 98>>, <<Star, Star>>, <<Star>>,
     <<47>>, <<46>>, <<44>>, <<123>>, <<125>>}

\* path_encryption_key: None, "AAEC"
GlobKeys == {NoneStr, SomeStr(<<65, 65, 69, 67>>)}

GlobInit ==
    /\ g_pieces = << >>
    /\ g_key = NoneStr
    /\ g_out = << >>
    /\ g_pc = "build"

GlobIdle ==
    /\ g_pieces = << >>
    /\ g_key = NoneStr
    /\ g_out = << >>
    /\ g_pc = "idle"

GlobPattern == Flat(g_pieces)

GAppendPiece ==
    /\ g_pc = "build"
    /\ Len(g_pieces) < MaxGlobPieces
    /\ \E piece \in GlobPieces : g_pieces' = Append(g_pieces, piece)
    /\ UNCHANGED <<g_key, g_out, g_pc, notGlobVars>>

GEncryptGlob ==
    /\ g_pc = "build"
    /\ \E key \in GlobKeys :
          /\ g_key' = key
          /\ g_out' = EncryptGlob(GlobPattern, BuildPathEncryptionScheme(key))
    /\ g_pc' = "encrypted"
    /\ UNCHANGED <<g_pieces, notGlobVars>>

GlobNext == GAppendPiece \/ GEncryptGlob

----------------------------------------------------------------------------
(* The keyed response session: the backend encrypts the path of a result   *)
(* under the key of the client, the token may be damaged on the way (a     *)
(* character lost or changed, or the path sent as it is), and the client   *)
(* parses the response that holds it.                                      *)

\* "a", "a/b", "é.a", "src"
KeyedPaths == {<<97>>, <<97, 47, 98>>, <<233, 46, 97>>, <<115, 114, 99>>}

\* path_encryption_key: None, "AAEC", "_-8"
KeyedKeys ==
    {NoneStr, SomeStr(<<65, 65, 69, 67>>), SomeStr(<<95, 45, 56>>)}

\* "A", "_"
DamageChars == {65, 95}

\* The response body that holds one result with the path.
BodyOfPath(path) ==
    WrapConnectEnvelope(
        EncodeResponseItem(
            [field |-> 1,
             result |-> CodeResult(CodeBlock(path, << >>, DefaultRange,
                                             << >>, << >>, << >>),
                                   NoneFloat)]),
        FALSE)

KeyedInit ==
    /\ k_path = << >>
    /\ k_key = NoneStr
    /\ k_token = << >>
    /\ k_damage = "no"
    /\ k_parsed = NoSearchResult
    /\ k_pc = "start"

KeyedIdle ==
    /\ k_path = << >>
    /\ k_key = NoneStr
    /\ k_token = << >>
    /\ k_damage = "no"
    /\ k_parsed = NoSearchResult
    /\ k_pc = "idle"

KSendPath ==
    /\ k_pc = "start"
    /\ \E path \in KeyedPaths, key \in KeyedKeys :
          /\ k_path' = path
          /\ k_key' = key
          /\ k_token' = EncryptPath(path, BuildPathEncryptionScheme(key))
    /\ k_pc' = "sent"
    /\ UNCHANGED <<k_damage, k_parsed, notKeyedVars>>

KLoseChar ==
    /\ k_pc = "sent"
    /\ \E i \in 1..Len(k_token) :
          /\ k_token[i] \notin PathSeparators
          /\ k_token' = SubSeq(k_token, 1, i - 1)
                            \o SubSeq(k_token, i + 1, Len(k_token))
    /\ k_damage' = "lost"
    /\ k_pc' = "damaged"
    /\ UNCHANGED <<k_path, k_key, k_parsed, notKeyedVars>>

KChangeChar ==
    /\ k_pc = "sent"
    /\ \E i \in 1..Len(k_token), c \in DamageChars :
          /\ k_token[i] \notin PathSeparators \cup {c}
          /\ k_token' = [k_token EXCEPT ![i] = c]
    /\ k_damage' = "changed"
    /\ k_pc' = "damaged"
    /\ UNCHANGED <<k_path, k_key, k_parsed, notKeyedVars>>

KSendPlain ==
    /\ k_pc = "sent"
    /\ k_token # k_path
    /\ k_token' = k_path
    /\ k_damage' = "plain"
    /\ k_pc' = "damaged"
    /\ UNCHANGED <<k_path, k_key, k_parsed, notKeyedVars>>

KParse ==
    /\ k_pc \in {"sent", "damaged"}
    /\ k_parsed' = ParseProtoResponseOf(BodyOfPath(k_token), k_key)
    /\ k_pc' = "parsed"
    /\ UNCHANGED <<k_path, k_key, k_token, k_damage, notKeyedVars>>

KeyedNext == KSendPath \/ KLoseChar \/ KChangeChar \/ KSendPlain \/ KParse

----------------------------------------------------------------------------
(* auth.py: the checksum of a request                                      *)

\* The standard alphabet: A-Z a-z 0-9 + /
B64Char(d) ==
    IF d < 26 THEN 65 + d
    ELSE IF d < 52 THEN 97 + (d - 26)
    ELSE IF d < 62 THEN 48 + (d - 52)
    ELSE IF d = 62 THEN 43
    ELSE 47

\* base64.b64encode(data).decode("ascii"): the last group is filled up
\* with "=".
B64Encode(data) ==
    [j \in 1..(4 * B64Groups(Len(data))) |->
        IF j <= B64TextLen(Len(data)) THEN B64Char(B64Digits(data)[j])
        ELSE 61]

\* timestamp.to_bytes(6, byteorder="big")
ToBytes6(value) ==
    LET l0 == IF Len(value) >= 1 THEN value[1] ELSE 0
        l1 == IF Len(value) >= 2 THEN value[2] ELSE 0
    IN  IF Len(value) > 2 \/ l0 < 0 \/ l1 < 0 \/ l1 >= Pow2(20)
        THEN DecodedError("OverflowError")
        ELSE DecodedOk(<<(l1 \div 4096) % 256,
                         (l1 \div 16) % 256,
                         (l1 % 16) * 16 + l0 \div Pow2(24),
                         (l0 \div 65536) % 256,
                         (l0 \div 256) % 256,
                         l0 % 256>>)

\* for i in range(len(result)): result[i] = ...; w = result[i]
RECURSIVE EncryptBytesLoop(_, _, _)
EncryptBytesLoop(result, i, w) ==
    IF i >= Len(result) THEN result
    ELSE Bind((XorByte(result[i + 1], w) + (i % 256)) % 256,
              LAMBDA b : EncryptBytesLoop([result EXCEPT ![i + 1] = b],
                                          i + 1, b))

\* A plausible slip: the running byte stays at its first value.
EncryptBytesFixedW(data) ==
    [i \in 1..Len(data) |-> (XorByte(data[i], 165) + ((i - 1) % 256)) % 256]

EncryptBytes(data) == EncryptBytesLoop(data, 0, 165)

\* generate_checksum, the clock read as timestamp
GenerateChecksum(timestamp, machine_id) ==
    LET timestamp_bytes == ToBytes6(timestamp)
    IN  IF timestamp_bytes.st # "ok" THEN TextError(timestamp_bytes.st)
        ELSE TextOk(B64Encode(EncryptBytes(timestamp_bytes.bytes))
                        \o machine_id)

----------------------------------------------------------------------------
(* The checksum session: two checksums are generated, each at some time    *)
(* of the clock for some machine id.                                       *)

\* int(time.time() * 1000): times that differ in one byte or in several.
Timestamps ==
    {PyNorm(<<l0, l1>>) : l0 \in {0, 1, 256, 65536, Pow2(24), LimbBase - 1},
                          l1 \in {0, 1, 16, 4096, 6333}}

\* "cursor-search-mcp", "m", "A", "AA"
DefaultMachineId ==
    <<99, 117, 114, 115, 111, 114, 45, 115, 101, 97, 114, 99, 104, 45, 109,
      99, 112>>

MachineIds == {DefaultMachineId, <<109>>, <<65>>, <<65, 65>>}

NoChecksum == TextOk(<< >>)

ChecksumInit ==
    /\ c_ts = << >>
    /\ c_mid = << >>
    /\ c_out = NoChecksum
    /\ c_ts2 = << >>
    /\ c_mid2 = << >>
    /\ c_out2 = NoChecksum
    /\ c_pc = "start"

ChecksumIdle ==
    /\ c_ts = << >>
    /\ c_mid = << >>
    /\ c_out = NoChecksum
    /\ c_ts2 = << >>
    /\ c_mid2 = << >>
    /\ c_out2 = NoChecksum
    /\ c_pc = "idle"

CGenerate ==
    /\ c_pc = "start"
    /\ \E timestamp \in Timestamps, machine_id \in MachineIds :
          /\ c_ts' = timestamp
          /\ c_mid' = machine_id
          /\ c_out' = GenerateChecksum(timestamp, machine_id)
    /\ c_pc' = "one"
    /\ UNCHANGED <<c_ts2, c_mid2, c_out2, notChecksumVars>>

CGenerateAgain ==
    /\ c_pc = "one"
    /\ \E timestamp \in Timestamps, machine_id \in MachineIds :
          /\ c_ts2' = timestamp
          /\ c_mid2' = machine_id
          /\ c_out2' = GenerateChecksum(timestamp, machine_id)
    /\ c_pc' = "two"
    /\ UNCHANGED <<c_ts, c_mid, c_out, notChecksumVars>>

ChecksumNext == CGenerate \/ CGenerateAgain

----------------------------------------------------------------------------
(* The thread session: several threads call the codec and crypto           *)
(* operations at the same time, each on its own input, all with one        *)
(* scheme.  The arguments and the local variables of a call live in the    *)
(* frame of the call; the scheme object is the one thing the calls share.  *)
(* A thread runs one pass of a loop, or one statement, at a time, and the  *)
(* threads take their turns in any order.                                  *)

MaxThreads == 2

Threads == 1..MaxThreads

\* A plausible slip: the working values are kept in one place for all
\* calls, as on the module or on the scheme.
FrameOfShared(t) == 1

\* The frame that holds the arguments and the local variables of the call
\* of thread t.
FrameOf(t) == t

NoFrame ==
    [op |-> "none", arg |-> << >>, todo |-> << >>, i |-> 0, acc |-> << >>,
     w |-> 0, st |-> "ok"]

NoOut == [st |-> "none", value |-> << >>]
Out(st, value) == [st |-> st, value |-> value]

\* b"\x05\x06\x07"
SomeBytes == <<5, 6, 7>>

\* A gzip-compressed frame and one that is cut short.
SomeEnvelope ==
    WrapConnectEnvelope(<<1, 2>>, TRUE) \o <<0, 0, 0>>

\* A response of a result at field 1 and a field that is skipped.
SomeResponse ==
    EncodeResponseItem([field |-> 1,
                        result |-> CodeResult(
                            CodeBlock(PathAB, << >>, DefaultRange, << >>,
                                      << >>, << >>),
                            NoneFloat)])
    \o <<16, 1>>

\* The calls a thread may make: the operation and its input.  The path to
\* decrypt is one that was encrypted under the scheme.
ThreadCalls(scheme) ==
    {[op |-> "encrypt_path", arg |-> PathAB],
     [op |-> "decrypt_path", arg |-> EncryptPath(PathAB, scheme)],
     [op |-> "encrypt_glob", arg |-> <<97, 42, 98, 47, 99>>],
     [op |-> "_encrypt_bytes", arg |-> SomeBytes],
     [op |-> "decode_connect_envelope", arg |-> SomeEnvelope],
     [op |-> "parse_search_response", arg |-> SomeResponse],
     [op |-> "encode_string", arg |-> <<113, 233>>]}

\* The frame of a call before its first statement.
NewFrame(call) == [NoFrame EXCEPT !.op = call.op, !.arg = call.arg]

ThreadInit ==
    /\ t_scheme \in {BuildPathEncryptionScheme(key) : key \in GlobKeys}
    /\ t_calls = [t \in Threads |-> [op |-> "none", arg |-> << >>]]
    /\ t_frames = [f \in Threads |-> NoFrame]
    /\ t_pcs = [t \in Threads |-> "idle"]
    /\ t_outs = [t \in Threads |-> NoOut]

ThreadIdle ==
    /\ t_scheme = PlainTextEncryptionScheme
    /\ t_calls = << >>
    /\ t_frames = << >>
    /\ t_pcs = << >>
    /\ t_outs = << >>

\* The thread calls an operation.
TCallOf(t) ==
    /\ t_pcs[t] = "idle"
    /\ \E call \in ThreadCalls(t_scheme) :
          /\ t_calls' = [t_calls EXCEPT ![t] = call]
          /\ t_frames' = [t_frames EXCEPT ![FrameOf(t)] = NewFrame(call)]
    /\ t_pcs' = [t_pcs EXCEPT ![t] = "entered"]
    /\ UNCHANGED <<t_scheme, t_outs, notThreadVars>>

TCall == \E t \in Threads : TCallOf(t)

\* The statements before the loop of an operation.
Entered(frame) ==
    IF frame.op \in {"encrypt_path", "decrypt_path"}
    THEN [frame EXCEPT !.todo = PathSplit(frame.arg)]
    ELSE IF frame.op = "encrypt_glob"
    THEN [frame EXCEPT !.todo = GlobSplit(frame.arg)]
    ELSE IF frame.op = "_encrypt_bytes"
    THEN [frame EXCEPT !.todo = frame.arg, !.w = 165]
    ELSE IF frame.op = "encode_string"
    THEN [frame EXCEPT !.todo = Utf8Encode(frame.arg)]
    ELSE [frame EXCEPT !.todo = frame.arg]

TEnterOf(t) ==
    /\ t_pcs[t] = "entered"
    /\ t_frames' = [t_frames EXCEPT
                       ![FrameOf(t)] = Entered(t_frames[FrameOf(t)])]
    /\ t_pcs' = [t_pcs EXCEPT ![t] = "loop"]
    /\ UNCHANGED <<t_scheme, t_calls, t_outs, notThreadVars>>

TEnter == \E t \in Threads : TEnterOf(t)

\* The loop of the operation has passes left.
InLoop(frame) ==
    /\ frame.st = "ok"
    /\ frame.op # "none"
    /\ frame.i < Len(frame.todo)
    /\ frame.op = "encode_string" => frame.i = 0

\* One pass of the loop of encrypt_path, decrypt_path or encrypt_glob over
\* the part at i: what is appended to out.
PartPass(frame, scheme) ==
    LET part == frame.todo[frame.i + 1]
    IN  IF frame.op = "encrypt_glob"
        THEN [frame EXCEPT !.i = @ + 1, !.acc = @ \o GlobPart(part, scheme)]
        ELSE IF KeptAsIs(part)
        THEN [frame EXCEPT !.i = @ + 1, !.acc = @ \o part]
        ELSE IF frame.op = "encrypt_path"
        THEN [frame EXCEPT !.i = @ + 1,
                           !.acc = @ \o SchemeEncrypt(scheme, part)]
        ELSE Bind(SchemeDecrypt(scheme, part), LAMBDA r :
                 IF r.st # "ok" THEN [frame EXCEPT !.st = r.st]
                 ELSE [frame EXCEPT !.i = @ + 1, !.acc = @ \o r.str])

\* One pass of the loop of _encrypt_bytes over the byte at i.
BytePass(frame) ==
    Bind((XorByte(frame.todo[frame.i + 1], frame.w) + (frame.i % 256)) % 256,
         LAMBDA b : [frame EXCEPT !.todo[frame.i + 1] = b, !.w = b,
                                  !.i = @ + 1])

\* One pass of the loop of decode_connect_envelope.
EnvelopePass(frame) ==
    Bind(EnvIteration(frame.todo, frame.i, frame.acc), LAMBDA it :
        IF it.ctl = "continue"
        THEN [frame EXCEPT !.i = it.pos, !.acc = it.messages]
        ELSE [frame EXCEPT !.st = it.ctl, !.acc = it.messages])

\* One pass of the loop of parse_search_response.
ResponsePass(frame) ==
    Bind(SearchResponseIteration(frame.todo, frame.i, frame.acc), LAMBDA it :
        IF it.st # "ok" THEN [frame EXCEPT !.st = it.st]
        ELSE [frame EXCEPT !.i = it.pos, !.acc = it.acc])

\* encode_string after value.encode("utf-8"): the tag, the length, the
\* bytes.
StringPass(frame) ==
    [frame EXCEPT !.i = 1,
                  !.acc = EncodeVarint(Tag(1, 2))
                              \o EncodeVarint(ToPy(Len(frame.todo)))
                              \o frame.todo]

TPassOf(t, ops, after) ==
    /\ t_pcs[t] = "loop"
    /\ t_frames[FrameOf(t)].op \in ops
    /\ InLoop(t_frames[FrameOf(t)])
    /\ t_frames' = [t_frames EXCEPT ![FrameOf(t)] = after]
    /\ UNCHANGED <<t_scheme, t_calls, t_pcs, t_outs, notThreadVars>>

TPartPass ==
    \E t \in Threads :
        TPassOf(t, {"encrypt_path", "decrypt_path", "encrypt_glob"},
                PartPass(t_frames[FrameOf(t)], t_scheme))

TBytePass ==
    \E t \in Threads :
        TPassOf(t, {"_encrypt_bytes"}, BytePass(t_frames[FrameOf(t)]))

TEnvelopePass ==
    \E t \in Threads :
        TPassOf(t, {"decode_connect_envelope"},
                EnvelopePass(t_frames[FrameOf(t)]))

TResponsePass ==
    \E t \in Threads :
        TPassOf(t, {"parse_search_response"},
                ResponsePass(t_frames[FrameOf(t)]))

TStringPass ==
    \E t \in Threads :
        TPassOf(t, {"encode_string"}, StringPass(t_frames[FrameOf(t)]))

\* What the operation returns or raises when its loop is over.
ReturnOf(frame) ==
    IF frame.op = "_encrypt_bytes" THEN Out("ok", frame.todo)
    ELSE IF frame.op = "decode_connect_envelope"
    THEN IF frame.st \in {"ok", "break"} THEN Out("ok", frame.acc)
         ELSE Out(frame.st, << >>)
    ELSE IF frame.st = "ok" THEN Out("ok", frame.acc)
    ELSE Out(frame.st, << >>)

TReturnOf(t) ==
    /\ t_pcs[t] = "loop"
    /\ ~InLoop(t_frames[FrameOf(t)])
    /\ t_outs' = [t_outs EXCEPT ![t] = ReturnOf(t_frames[FrameOf(t)])]
    /\ t_pcs' = [t_pcs EXCEPT ![t] = "returned"]
    /\ UNCHANGED <<t_scheme, t_calls, t_frames, notThreadVars>>

TReturn == \E t \in Threads : TReturnOf(t)

ThreadNext ==
    TCall \/ TEnter \/ TPartPass \/ TBytePass \/ TEnvelopePass
    \/ TResponsePass \/ TStringPass \/ TReturn

----------------------------------------------------------------------------
(* The encoder session: encode_varint or encode_int32 is called with an    *)
(* int, negative ones among them, and runs pass by pass.  The ints of this *)
(* session are small, so they are integers of the model: value & 0x7F is   *)
(* value % 128 and value >> 7 is value \div 128, which rounds down as      *)
(* Python does.  The bytes of the result beyond MaxLoopBytes are not       *)
(* recorded; its length is counted modulo LenWrap.                         *)

MaxLoopBytes == 4

LenWrap == 8

\* top_k or num_files: -1 and other negative values, 0, small and large
\* positive values.
LoopValues ==
    (-5..40) \cup {-128, -129, -16384, 127, 128, 129, 300, 16383, 16384}

\* encode_int32(3, top_k), encode_int32(8, num_files)
Int32Fields == {3, 8}

LoopInit ==
    /\ l_fn = "none"
    /\ l_arg = 0
    /\ l_value = 0
    /\ l_bits = 0
    /\ l_result = << >>
    /\ l_len = 0
    /\ l_out = << >>
    /\ l_pc = "start"

LoopIdle ==
    /\ l_fn = "none"
    /\ l_arg = 0
    /\ l_value = 0
    /\ l_bits = 0
    /\ l_result = << >>
    /\ l_len = 0
    /\ l_out = << >>
    /\ l_pc = "idle"

\* bits = value & 0x7F; value >>= 7; result = b""
LEnterVarint(fn, arg, before) ==
    /\ l_pc = "start"
    /\ l_fn' = fn
    /\ l_arg' = arg
    /\ l_bits' = arg % 128
    /\ l_value' = arg \div 128
    /\ l_result' = << >>
    /\ l_len' = 0
    /\ l_out' = before
    /\ l_pc' = "loop"
    /\ UNCHANGED notLoopVars

LCallEncodeVarint ==
    \E value \in LoopValues : LEnterVarint("encode_varint", value, << >>)

\* if value == 0: return b""
LCallEncodeInt32Zero ==
    /\ l_pc = "start"
    /\ l_fn' = "encode_int32"
    /\ l_arg' = 0
    /\ l_out' = << >>
    /\ l_pc' = "returned"
    /\ UNCHANGED <<l_value, l_bits, l_result, l_len, notLoopVars>>

\* tag = encode_varint((field_number << 3) | 0); encode_varint(value)
LCallEncodeInt32 ==
    \E value \in LoopValues \ {0}, field_number \in Int32Fields :
        LEnterVarint("encode_int32", value,
                     EncodeVarint(Tag(field_number, 0)))

\* while value: result += bytes([0x80 | bits]); bits = value & 0x7F;
\* value >>= 7
LPass ==
    /\ l_pc = "loop"
    /\ l_value # 0
    /\ l_result' = IF Len(l_result) < MaxLoopBytes
                   THEN Append(l_result, 128 + l_bits) ELSE l_result
    /\ l_len' = (l_len + 1) % LenWrap
    /\ l_bits' = l_value % 128
    /\ l_value' = l_value \div 128
    /\ UNCHANGED <<l_fn, l_arg, l_out, l_pc, notLoopVars>>

\* return result + bytes([bits])
LReturn ==
    /\ l_pc = "loop"
    /\ l_value = 0
    /\ l_out' = l_out \o l_result \o <<l_bits>>
    /\ l_pc' = "returned"
    /\ UNCHANGED <<l_fn, l_arg, l_value, l_bits, l_result, l_len,
                   notLoopVars>>

LoopNext ==
    LCallEncodeVarint \/ LCallEncodeInt32Zero \/ LCallEncodeInt32 \/ LPass
    \/ LReturn

----------------------------------------------------------------------------
(* server.py and client.py: the client the server builds, and a search.    *)
(* What the server reads from its surroundings (the repository, the auth   *)
(* id inside the token, the keys Cursor keeps for the workspace) is the    *)
(* input; httpx is the network: every request is answered with a status    *)
(* and a body, or fails with a httpx.RequestError.                          *)

\* "https://github.com/"
GitHubPrefix ==
    <<104, 116, 116, 112, 115, 58, 47, 47, 103, 105, 116, 104, 117, 98, 46, 99, 111, 109, 47>>

\* "file://"
FileScheme == <<102, 105, 108, 101, 58, 47, 47>>

\* Path(workspace_path).resolve().as_uri(), for an absolute path of plain
\* characters
AsUri(path) == FileScheme \o path

\* A plausible slip: the GitHub URL is made whenever no remote URL is
\* given, for a local repository too.
NewClientAlwaysUrl(kw) ==
    [kw EXCEPT !.remote_url =
        IF kw.remote_url.present THEN kw.remote_url
        ELSE SomeStr(GitHubPrefix \o kw.repo_owner \o <<47>> \o kw.repo_name)]

\* CursorSearchClient.__init__: the attributes of the client
NewClient(kw) ==
    [kw EXCEPT !.remote_url =
        IF kw.remote_url.present THEN kw.remote_url
        ELSE IF kw.is_local THEN NoneStr
        ELSE SomeStr(GitHubPrefix \o kw.repo_owner \o <<47>> \o kw.repo_name)]

\* bool(cursor_keys and auth_id): the keys are an object or None, the auth
\* id a string or None.
KeysAndAuthId(cursor_keys, auth_id) ==
    cursor_keys.present /\ auth_id.present /\ auth_id.s # << >>

\* _get_search_client, after what it reads from its surroundings
GetSearchClient(repo_info, auth_id, cursor_keys) ==
    IF KeysAndAuthId(cursor_keys, auth_id)
    THEN NewClient(
             [repo_name |-> cursor_keys.repo_name,
              repo_owner |-> auth_id.s,
              remote_url |-> NoneStr,
              is_tracked |-> FALSE,
              is_local |-> TRUE,
              orthogonal_transform_seed |->
                  cursor_keys.orthogonal_transform_seed,
              path_encryption_key |-> cursor_keys.path_encryption_key,
              workspace_uri |->
                  IF cursor_keys.path_encryption_key.present
                     /\ cursor_keys.path_encryption_key.s # << >>
                  THEN SomeStr(EncryptPath(
                           AsUri(repo_info.workspace_path),
                           BuildPathEncryptionScheme(
                               cursor_keys.path_encryption_key)))
                  ELSE NoneStr])
    ELSE NewClient(
             [repo_name |-> repo_info.name,
              repo_owner |-> repo_info.owner,
              remote_url |-> repo_info.remote_url,
              is_tracked |-> TRUE,
              is_local |-> FALSE,
              orthogonal_transform_seed |-> NoneFloat,
              path_encryption_key |-> NoneStr,
              workspace_uri |-> NoneStr])

\* glob_filter of search: the target directory and "/**", encrypted when
\* the client has a path encryption key
SearchGlobFilter(client, target_directory) ==
    IF ~target_directory.present \/ target_directory.s = << >> THEN NoneStr
    ELSE IF client.path_encryption_key.present
            /\ client.path_encryption_key.s # << >>
    THEN SomeStr(EncryptGlob(target_directory.s \o <<47, 42, 42>>,
                             BuildPathEncryptionScheme(
                                 client.path_encryption_key)))
    ELSE SomeStr(target_directory.s \o <<47, 42, 42>>)

\* The keyword arguments search hands to the request encoders.
SearchArgs(client, call) ==
    [EmptyArgs EXCEPT
        !.query = call.query,
        !.repo_name = client.repo_name,
        !.repo_owner = client.repo_owner,
        !.top_k = call.top_k,
        !.rerank = call.rerank,
        !.glob_filter = SearchGlobFilter(client, call.target_directory),
        !.remote_url = client.remote_url,
        !.is_tracked = client.is_tracked,
        !.is_local = client.is_local,
        !.orthogonal_transform_seed = client.orthogonal_transform_seed,
        !.workspace_uri = client.workspace_uri]

\* A plausible slip: every status of the 2xx class counts as success.
IsOkAny2xx(status_code) == status_code \in 200..299

\* response.status_code == 200
IsOk(status_code) == status_code = 200

\* _make_proto_request: what is posted
Posted(service_path, proto_data) ==
    [service |-> service_path,
     content |-> WrapConnectEnvelope(proto_data, FALSE)]

----------------------------------------------------------------------------
(* The search session: the server builds its client, search is called, and *)
(* the network answers each request.                                       *)

\* "r", "o", "/w", "u"
RepoInfos ==
    [name : {<<114>>}, owner : {<<111>>}, workspace_path : {<<47, 119>>},
     remote_url : {NoneStr, SomeStr(<<117>>)}]

\* The sub of the token: None, "", "i"
AuthIds == {NoneStr, SomeStr(<< >>), SomeStr(<<105>>)}

NoKeys ==
    [present |-> FALSE, repo_name |-> << >>,
     orthogonal_transform_seed |-> NoneFloat,
     path_encryption_key |-> NoneStr]

\* The keys of the workspace: none, or the repository name "k" with or
\* without a seed and a path encryption key ("AAEC", or "").
CursorKeys ==
    {NoKeys}
    \cup [present : {TRUE}, repo_name : {<<107>>},
          orthogonal_transform_seed :
              {NoneFloat, SomeFloat(FloatPow2(FALSE, 0))},
          path_encryption_key :
              {NoneStr, SomeStr(<< >>), SomeStr(<<65, 65, 69, 67>>)}]

\* query "q"; target_directory None or "src"
SearchCalls ==
    [query : {<<113>>}, top_k : {ToPy(10)}, rerank : {TRUE, FALSE},
     target_directory : {NoneStr, SomeStr(<<115, 114, 99>>)}]

Statuses == {200, 204, 404, 503}

\* The bodies of an answer: empty, a response of one result, bytes that
\* are no response.
AnswerBodies == {<< >>, BodyOfPath(PathAB), <<7>>}

NoClient == NewClient(
    [repo_name |-> << >>, repo_owner |-> << >>, remote_url |-> SomeStr(<< >>),
     is_tracked |-> FALSE, is_local |-> FALSE,
     orthogonal_transform_seed |-> NoneFloat,
     path_encryption_key |-> NoneStr, workspace_uri |-> NoneStr])

NoEnv ==
    [repo_info |-> [name |-> << >>, owner |-> << >>,
                    workspace_path |-> << >>, remote_url |-> NoneStr],
     auth_id |-> NoneStr, cursor_keys |-> NoKeys]

NoCall ==
    [query |-> << >>, top_k |-> ToPy(0), rerank |-> FALSE,
     target_directory |-> NoneStr]

NoOutcome == [kind |-> "none", result |-> NoSearchResult]

SearchInit ==
    /\ s_env = NoEnv
    /\ s_client = NoClient
    /\ s_call = NoCall
    /\ s_sent = << >>
    /\ s_replies = << >>
    /\ s_out = NoOutcome
    /\ s_pc = "start"

SearchIdle ==
    /\ s_env = NoEnv
    /\ s_client = NoClient
    /\ s_call = NoCall
    /\ s_sent = << >>
    /\ s_replies = << >>
    /\ s_out = NoOutcome
    /\ s_pc = "idle"

SGetSearchClient ==
    /\ s_pc = "start"
    /\ \E repo_info \in RepoInfos, auth_id \in AuthIds,
          cursor_keys \in CursorKeys :
          /\ s_env' = [repo_info |-> repo_info, auth_id |-> auth_id,
                       cursor_keys |-> cursor_keys]
          /\ s_client' = GetSearchClient(repo_info, auth_id, cursor_keys)
    /\ s_pc' = "client"
    /\ UNCHANGED <<s_call, s_sent, s_replies, s_out, notSearchVars>>

\* search up to the first request
SSearch ==
    /\ s_pc = "client"
    /\ \E call \in SearchCalls :
          /\ s_call' = call
          /\ s_sent' = <<Posted("SemSearch",
                                EncodeSemSearchRequest(
                                    SearchArgs(s_client, call)))>>
    /\ s_pc' = "SemSearch"
    /\ UNCHANGED <<s_env, s_client, s_replies, s_out, notSearchVars>>

Status(status_code, content) ==
    [kind |-> "status", status_code |-> status_code, content |-> content]

RequestError == [kind |-> "error", status_code |-> 0, content |-> << >>]

\* if response.status_code == 200: return self._parse_proto_response(...)
SParse(service) ==
    /\ s_pc = service
    /\ \E status_code \in Statuses, content \in AnswerBodies :
          /\ IsOk(status_code)
          /\ s_replies' = Append(s_replies, Status(status_code, content))
          /\ s_out' = [kind |-> "SearchResult",
                       result |-> ParseProtoResponseOf(
                                      content, s_client.path_encryption_key)]
    /\ s_pc' = "returned"
    /\ UNCHANGED <<s_env, s_client, s_call, s_sent, notSearchVars>>

SSemSearchOk == SParse("SemSearch")

SSearchRepositoryOk == SParse("SearchRepositoryV2")

\* SemSearch is answered with another status: the second request
SFallBack ==
    /\ s_pc = "SemSearch"
    /\ \E status_code \in Statuses, content \in AnswerBodies :
          /\ ~IsOk(status_code)
          /\ s_replies' = Append(s_replies, Status(status_code, content))
    /\ s_sent' = Append(s_sent,
                        Posted("SearchRepositoryV2",
                               EncodeSearchRepositoryRequest(
                                   SearchArgs(s_client, s_call))))
    /\ s_pc' = "SearchRepositoryV2"
    /\ UNCHANGED <<s_env, s_client, s_call, s_out, notSearchVars>>

\* raise RuntimeError(f"Search failed with status ...")
SFail ==
    /\ s_pc = "SearchRepositoryV2"
    /\ \E status_code \in Statuses, content \in AnswerBodies :
          /\ ~IsOk(status_code)
          /\ s_replies' = Append(s_replies, Status(status_code, content))
    /\ s_out' = [kind |-> "RuntimeError", result |-> NoSearchResult]
    /\ s_pc' = "raised"
    /\ UNCHANGED <<s_env, s_client, s_call, s_sent, notSearchVars>>

\* except httpx.RequestError as e: raise RuntimeError(...)
SRequestError ==
    /\ s_pc \in {"SemSearch", "SearchRepositoryV2"}
    /\ s_replies' = Append(s_replies, RequestError)
    /\ s_out' = [kind |-> "RuntimeError", result |-> NoSearchResult]
    /\ s_pc' = "raised"
    /\ UNCHANGED <<s_env, s_client, s_call, s_sent, notSearchVars>>

SearchNext ==
    SGetSearchClient \/ SSearch \/ SSemSearchOk \/ SSearchRepositoryOk
    \/ SFallBack \/ SFail \/ SRequestError

----------------------------------------------------------------------------
(* Claims on the varint codec                                              *)

\* The binary expansion of a Python int, least significant bit first,
\* without leading zero bits.
RECURSIVE BitsOfInt(_, _)
BitsOfInt(n, k) == IF k = 0 THEN << >> ELSE <<n % 2>> \o BitsOfInt(n \div 2, k - 1)

RECURSIVE BitsOfLimbs(_)
BitsOfLimbs(v) ==
    IF v = << >> THEN << >> ELSE BitsOfInt(v[1], 28) \o BitsOfLimbs(Tail(v))

RECURSIVE BitsOfGroups(_)
BitsOfGroups(buf) ==
    IF buf = << >> THEN << >>
    ELSE BitsOfInt(buf[1] % 128, 7) \o BitsOfGroups(Tail(buf))

\* C6: a value of 0..2^32-1 that is encoded and decoded from position 0
\* comes back with the position just past its encoding; the encoding has
\* the continuation bit on every byte but the last and carries the value in
\* 7-bit groups, least significant group first.
C6_VarintRoundTrip ==
    /\ (v_pc \in {"encoded", "decoded"} /\ v_intact) =>
          /\ Len(v_buf) >= 1
          /\ \A i \in 1..Len(v_buf) : (v_buf[i] >= 128) <=> (i < Len(v_buf))
          /\ PyNorm(BitsOfGroups(v_buf)) = PyNorm(BitsOfLimbs(v_n))
    /\ (v_pc = "decoded" /\ v_intact /\ v_pos = 0) =>
          v_res = VarintOk(v_n, Len(v_buf))

C6_Witness ==
    /\ v_pc = "decoded" /\ v_intact /\ v_pos = 0
    /\ v_n = <<LimbBase - 1, 15>>
    /\ Len(v_buf) = 5

AllContinued(buf, pos) == \A i \in (pos + 1)..Len(buf) : buf[i] >= 128

\* C7: when every byte from pos to the end of the buffer has the
\* continuation bit (also when pos is at or past the end), decode_varint
\* raises and returns no value.
C7_TruncatedVarintRaises ==
    (v_pc = "decoded" /\ AllContinued(v_buf, v_pos)) =>
        v_res = VarintRaise("IndexError")

C7_Witness ==
    /\ v_pc = "decoded"
    /\ Len(v_buf) >= 2
    /\ v_pos = 1
    /\ AllContinued(v_buf, v_pos)
    /\ v_res.st = "IndexError"

----------------------------------------------------------------------------
(* Claims on the field encoders                                            *)

\* C10: a field encoder returns no bytes exactly when its argument is the
\* default of its kind (empty string, 0, False, empty bytes, None); a
\* present 0.0 is not a default: encode_double returns the tag and 8 bytes.
C10_ZeroValueOmission ==
    \A i \in 1..Len(f_log) :
        /\ (f_log[i].emitted = << >>) <=> f_log[i].absent
        /\ f_log[i].zero =>
              /\ Len(f_log[i].emitted)
                    = Len(EncodeVarint(Tag(f_log[i].num, 1))) + 8
              /\ SubSeq(f_log[i].emitted, 1, Len(f_log[i].emitted) - 8)
                    = EncodeVarint(Tag(f_log[i].num, 1))

C10_Witness ==
    /\ Len(f_log) = 2
    /\ f_log[1].kind = "double" /\ f_log[1].zero /\ Len(f_log[1].emitted) = 9
    /\ f_log[2].kind = "double" /\ f_log[2].absent /\ f_log[2].emitted = << >>

----------------------------------------------------------------------------
(* Claims on the envelope decoder                                          *)

EnvDecoded == e_pc \in {"decoded", "decoded_cut"}

\* The complete frames that are no trailers, in the order written.
IsMessageFrame(f) == f.kind # "trailer"
MessageFrames == SelectSeq(e_log, IsMessageFrame)

\* C1: the concatenation of uncompressed wraps of p_1..p_n (n >= 1)
\* decodes to exactly <<p_1, ..., p_n>>.
C1_WrapUnwrapRoundTrip ==
    (/\ e_pc = "decoded"
     /\ Len(e_log) >= 1
     /\ \A i \in 1..Len(e_log) : e_log[i].kind = "plain")
    => e_res = EnvOk([i \in 1..Len(e_log) |-> e_log[i].orig])

C1_Witness ==
    /\ e_pc = "decoded"
    /\ Len(e_log) = 2
    /\ e_log[1].kind = "plain" /\ e_log[1].orig = <<7>>
    /\ e_log[2].kind = "plain" /\ e_log[2].orig = << >>
    /\ e_res.messages = << <<7>>, << >> >>

\* C2: a complete frame with flags bit 1 adds nothing to the messages,
\* whatever its bit 0 and its place, and the frames after it are decoded:
\* the messages are one per non-trailer frame, a plain frame's message
\* being its payload; a body of one trailer frame decodes to << >>.
C2_TrailerFramesSkipped ==
    EnvDecoded =>
        /\ Len(e_res.messages) = Len(MessageFrames)
        /\ \A i \in 1..Len(MessageFrames) :
              MessageFrames[i].kind = "plain" =>
                  e_res.messages[i] = MessageFrames[i].payload

C2_Witness ==
    /\ e_pc = "decoded"
    /\ Len(e_log) = 2
    /\ e_log[1].kind = "trailer" /\ e_log[1].flags = 3
    /\ e_log[1].payload # << >>
    /\ e_log[2].kind = "plain"
    /\ e_res.messages = <<e_log[2].payload>>

\* C4: a complete non-trailer frame with flags bit 0 yields exactly one
\* message: the decompressed payload when the payload is gzip, the raw
\* payload when decompression fails; the frames after it are decoded.
C4_CompressedFrames ==
    EnvDecoded =>
        /\ Len(e_res.messages) = Len(MessageFrames)
        /\ \A i \in 1..Len(MessageFrames) :
              /\ MessageFrames[i].kind = "gzip" =>
                    e_res.messages[i] = MessageFrames[i].orig
              /\ MessageFrames[i].kind = "notgzip" =>
                    e_res.messages[i] = MessageFrames[i].payload

C4_Witness ==
    /\ e_pc = "decoded"
    /\ Len(e_log) = 2
    /\ e_log[1].kind = "notgzip" /\ e_log[1].payload = <<31, 139, 0, 0, 1>>
    /\ e_log[2].kind = "gzip" /\ e_log[2].orig = <<10, 5, 10, 3, 10, 1, 97>>
    /\ e_res.messages = <<e_log[1].payload, e_log[2].orig>>

\* What the complete frames of the body deliver, whatever follows them.
FrameMessage(f) == IF f.kind = "gzip" THEN f.orig ELSE f.payload
ExpectedMessages == [i \in 1..Len(MessageFrames) |-> FrameMessage(MessageFrames[i])]

\* C5: decode_connect_envelope never raises: a body that ends in
\* fewer than 5 bytes, or in a header declaring more bytes than remain,
\* decodes to the messages of the complete frames before that point.
C5_TruncatedBodyIsCleanEnd ==
    EnvDecoded => e_res = EnvOk(ExpectedMessages)

C5_Witness ==
    /\ e_pc = "decoded_cut"
    /\ Len(e_log) = 1
    /\ e_log[1].kind = "plain" /\ e_log[1].payload = <<7>>
    /\ Len(e_stream) = 6 + 6
    /\ e_res = EnvOk(<< <<7>> >>)

----------------------------------------------------------------------------
(* Claims on the trailer of a response body                                *)

\* The payload is JSON with an "error" object.
CarriesJsonError(payload) ==
    /\ JsonLoads(payload).st = "ok"
    /\ JsonLoads(payload).v.t = "obj"
    /\ JsonHas(JsonLoads(payload).v, KeyError)

HasErrorTrailer ==
    \E i \in 1..Len(e_log) :
        e_log[i].kind = "trailer" /\ CarriesJsonError(e_log[i].payload)

\* C3: when a body of complete frames holds a trailer frame (flags bit 1)
\* whose payload is a JSON error, the SearchResult parsed from the body
\* carries {"error": ...} metadata, wherever in the body the trailer is.
C3_TrailerErrorSurfaced ==
    (e_pc = "parsed" /\ HasErrorTrailer) => e_parsed.metadata.kind = "error"

\* The one body shape whose error is surfaced: a single trailer frame with
\* flags 0x02.
C3_Witness ==
    /\ e_pc = "parsed"
    /\ Len(e_log) = 1
    /\ e_log[1].kind = "trailer" /\ e_log[1].flags = 2
    /\ e_log[1].payload = TrailerWithDetail
    /\ e_parsed = SearchResult(<< >>, ErrorMetadata(JsonStr(<<121>>)))

\* The body holds a message, written whole, that is not empty.
HasMessage ==
    \E i \in 1..Len(e_log) :
        e_log[i].kind # "trailer" /\ e_log[i].orig # << >>

\* C16: when no result is found in the messages of a response body,
\* parsing does not raise and the SearchResult has no chunks and carries
\* diagnostic metadata (an error text and the length of the body), so that
\* it differs from the SearchResult of a response with no message at all.
C16_NoResultIsDiagnosed ==
    (e_pc = "parsed" /\ HasMessage /\ e_parsed.chunks = << >>)
        => /\ e_parsed.metadata.kind = "parse_error"
           /\ e_parsed.metadata.raw_length = Len(e_stream)

\* The diagnostic metadata is there when a parser raised, with the length
\* of the body.
RaisedIsDiagnosed ==
    (e_pc \in {"parsed", "parsed_cut"}
        /\ e_parsed.metadata.kind = "parse_error")
        => /\ e_parsed.chunks = << >>
           /\ e_parsed.metadata.parse_error # ""
           /\ e_parsed.metadata.raw_length = Len(e_stream)

\* A body with one message in which nothing is found and nothing raises:
\* its SearchResult is that of an empty body.
C16_Witness ==
    /\ e_pc = "parsed"
    /\ Len(e_log) = 1
    /\ e_log[1].kind = "plain" /\ e_log[1].payload = <<7>>
    /\ e_parsed = SearchResult(<< >>, NoMetadata)
    /\ e_parsed = ParseProtoResponse(<< >>)

----------------------------------------------------------------------------
(* Claims on the termination of the decoders                               *)

\* C8: every decoder terminates on every buffer: each completed pass of a
\* decoder's loop leaves the read position at least one byte further
\* (also when the field has wire type 3, 4, 6 or 7, where skip_field does
\* not move), so a run makes at most len(data) passes, and every buffer
\* handed to a recursive call of parse_search_response is strictly
\* shorter than the caller's.
C8_DecodersTerminate ==
    /\ d_iters > 0 => d_pos > d_prev
    /\ d_iters <= Len(d_data)
    /\ \A i \in 1..Len(d_calls) : Len(d_calls[i]) < Len(d_data)

C8_Witness ==
    /\ d_fn = "parse_search_response"
    /\ d_data = <<4, 10, 0>>
    /\ d_st = "returned"
    /\ d_iters = 2
    /\ d_prev = 1 /\ d_pos = 3
    /\ d_calls = << << >> >>

----------------------------------------------------------------------------
(* Claims on the response parser                                           *)

\* The dicts of the entries that were written whole.
WrittenResults == [i \in 1..Len(r_items) |-> DictOfCodeResult(r_items[i].result)]

\* The first non-empty of the strings, or "".
FirstNonEmpty(strings) ==
    IF \A i \in 1..Len(strings) : strings[i] = << >> THEN << >>
    ELSE strings[CHOOSE i \in 1..Len(strings) :
                     /\ strings[i] # << >>
                     /\ \A j \in 1..(i - 1) : strings[j] = << >>]

DisplayText(m) ==
    FirstNonEmpty(<<m.contents, m.override_contents, m.file_contents,
                    m.original_contents>>)

\* The same dicts with the display text in the place of empty contents:
\* what a whole entry comes back as (see the claims on the schemas below).
ResolvedResults ==
    [i \in 1..Len(r_items) |->
        [WrittenResults[i] EXCEPT
            !.codeBlock.contents = DisplayText(r_items[i].result.code_block)]]

IsPrefix(a, b) == Len(a) <= Len(b) /\ SubSeq(b, 1, Len(a)) = a

\* C9: when the response handed to parse_search_response is cut off inside
\* a later entry (inside a varint, or inside a length-delimited field), the
\* parser does not raise and returns the results written before the cut.
C9_TruncatedResponseIsEndOfStream ==
    (r_pc = "parsed" /\ r_cut # "no")
        => /\ r_out.st = "ok"
           /\ IsPrefix(ResolvedResults, r_out.value)

\* What the parser does with a response that was not cut and not nested:
\* it returns the entries that were written, in order, the classification
\* wrappers taken off, the display text in the place of empty contents.
ResponseDecodedWhenWhole ==
    (r_pc = "parsed" /\ r_cut = "no" /\ ~r_nested)
        => /\ r_out.st = "ok"
           /\ r_out.value = ResolvedResults

C9_Witness ==
    /\ r_pc = "parsed"
    /\ r_cut = "varint"
    /\ Len(r_items) = 1
    /\ r_out.st = "IndexError"

ResponseParsedWhole == r_pc = "parsed" /\ r_cut = "no"

\* C13: from a plain response (entries at field 1) and from one whose
\* entries are wrapped in classification wrappers (field 3), with results
\* r_1..r_n that each have a non-empty path, parse_search_response returns
\* exactly [r_1..r_n], in order.
C13_PlainAndClassifiedResponses ==
    (ResponseParsedWhole /\ ~r_nested)
        => /\ r_out.st = "ok"
           /\ r_out.value = WrittenResults

C13_Witness ==
    /\ ResponseParsedWhole /\ ~r_nested
    /\ Len(r_items) = 2
    /\ r_items[1].field = 3 /\ r_items[2].field = 1
    /\ r_items[1].result # r_items[2].result
    /\ r_items[2].result.code_block.override_contents # << >>
    /\ r_out.st = "ok"
    /\ r_out.value = ResolvedResults
    /\ r_out.value # WrittenResults

\* The bytes of the code block of a result, read as text, where they are
\* text: what parse_code_block makes of a CodeResult handed to it.
InnerMessageTexts ==
    {Utf8Decode(EncodeCodeBlock(r.code_block)).str : r \in ResponseResults}

\* C14: from a wrapping response whose field 1 is a plain response with
\* results r_1..r_n, parse_search_response returns exactly [r_1..r_n], in
\* order, and no result whose path is the bytes of an inner message.
C14_NestedResponseResolved ==
    (r_pc = "parsed" /\ r_nested)
        => /\ r_out.st = "ok"
           /\ r_out.value = WrittenResults
           /\ \A i \in 1..Len(r_out.value) :
                  r_out.value[i].codeBlock.relativeWorkspacePath
                      \notin InnerMessageTexts

\* The nesting is resolved when the bytes of some inner code block are not
\* text (here: a line beyond 127, written as a two-byte varint).
NestedResolvedWhenNotText ==
    (/\ r_pc = "parsed" /\ r_nested
     /\ \E i \in 1..Len(r_items) :
            Utf8Decode(EncodeCodeBlock(r_items[i].result.code_block)).st
                # "ok")
        => /\ r_out.st = "ok"
           /\ r_out.value = ResolvedResults

C14_Witness ==
    /\ r_pc = "parsed" /\ r_nested
    /\ Len(r_items) = 2
    /\ r_items[1].result.code_block.relative_workspace_path = <<97>>
    /\ r_items[2].result.code_block.relative_workspace_path = <<97>>
    /\ r_out.st = "ok"
    /\ Len(r_out.value) = 1
    /\ r_out.value[1].codeBlock.relativeWorkspacePath = <<10, 1, 97>>

\* str.isprintable, on the characters of the model's paths.
IsPrintable(c) == c >= 32 /\ c \notin 127..160

\* A path string that looks like a path: it contains a path separator, is
\* printable and has no control characters.
LooksLikePath(path) ==
    /\ \E i \in 1..Len(path) : path[i] \in {47, 92}
    /\ \A i \in 1..Len(path) : IsPrintable(path[i])

\* C15: parse_search_response accepts the payload of a field 1 (and the
\* CodeResult inside a field 3) as a result only if its path looks like a
\* path; a field 1 payload that fails the check is never appended.
C15_OnlyPlausiblePathsAccepted ==
    (r_pc = "parsed" /\ r_out.st = "ok")
        => \A i \in 1..Len(r_out.value) :
               LooksLikePath(r_out.value[i].codeBlock.relativeWorkspacePath)

C15_Witness ==
    /\ ResponseParsedWhole /\ ~r_nested
    /\ Len(r_items) = 2
    /\ r_items[1].field = 1 /\ r_items[2].field = 3
    /\ r_out.st = "ok"
    /\ Len(r_out.value) = 2
    /\ ~LooksLikePath(r_out.value[1].codeBlock.relativeWorkspacePath)
    /\ LooksLikePath(r_out.value[2].codeBlock.relativeWorkspacePath)

----------------------------------------------------------------------------
(* Claims on the response schemas                                          *)

MsgDecoded == m_pc = "decoded"

\* The wire is what the field encoders write for the message.
EncoderBuilt ==
    /\ m_kind \in MessageKinds
    /\ Flat(m_parts) = Flat(FieldsOf(m_kind, m_msg))

NonDefault ==
    IF m_kind = "Position" THEN m_msg # DefaultPosition
    ELSE IF m_kind = "Range" THEN m_msg # DefaultRange
    ELSE IF m_kind = "CodeBlock" THEN m_msg # DefaultCodeBlock
    ELSE m_msg # CodeResult(DefaultCodeBlock, NoneFloat)

\* A decoded dict equals a message field by field; a dict the parser left
\* empty reads as the default of every field.
SamePosition(d, m) == d.line = m.line /\ d.column = m.column

SameRange(d, m) ==
    /\ SamePosition(d.startPosition, m.start_position)
    /\ SamePosition(d.endPosition, m.end_position)

SameCodeBlockButContents(d, m) ==
    /\ d.relativeWorkspacePath = m.relative_workspace_path
    /\ d.fileContents = m.file_contents
    /\ SameRange(d.range, m.range)
    /\ d.overrideContents = m.override_contents
    /\ d.originalContents = m.original_contents

SameCodeBlock(d, m) ==
    SameCodeBlockButContents(d, m) /\ d.contents = m.contents

ScoreOf(m) == IF m.score.present THEN m.score.x ELSE FloatZero

SameCodeResult(d, m) ==
    SameCodeBlock(d.codeBlock, m.code_block) /\ d.score = ScoreOf(m)

SameMessage(kind, d, m) ==
    IF kind = "Position" THEN SamePosition(d, m)
    ELSE IF kind = "Range" THEN SameRange(d, m)
    ELSE IF kind = "CodeBlock" THEN SameCodeBlock(d, m)
    ELSE SameCodeResult(d, m)

\* C12: for every Position, Range, CodeBlock and CodeResult with a
\* non-default field, the parser of its schema, given the bytes the field
\* encoders write for it, returns a value equal to it field by field.
C12_SchemaRoundTrip ==
    (MsgDecoded /\ EncoderBuilt /\ NonDefault)
        => /\ m_out.st = "ok"
           /\ SameMessage(m_kind, m_out.value, m_msg)

\* What the parsers do return: every field of the message but the contents
\* of a code block, which is the display text.
RoundTripButContents ==
    (MsgDecoded /\ EncoderBuilt)
        => /\ m_out.st = "ok"
           /\ m_kind \in {"Position", "Range"} =>
                 SameMessage(m_kind, m_out.value, m_msg)
           /\ m_kind = "CodeBlock" =>
                 /\ SameCodeBlockButContents(m_out.value, m_msg)
                 /\ m_out.value.contents = DisplayText(m_msg)
           /\ m_kind = "CodeResult" =>
                 /\ SameCodeBlockButContents(m_out.value.codeBlock,
                                             m_msg.code_block)
                 /\ m_out.value.codeBlock.contents
                        = DisplayText(m_msg.code_block)
                 /\ m_out.value.score = ScoreOf(m_msg)

\* A code block whose only contents are the override contents comes back
\* with them as its contents as well.
C12_Witness ==
    /\ MsgDecoded
    /\ m_kind = "CodeBlock"
    /\ m_msg = CodeBlock(PathAB, << >>, DefaultRange, << >>, <<111>>, << >>)
    /\ m_parts = <<EncodeString(1, PathAB), EncodeString(6, <<111>>)>>
    /\ m_out.value.contents = <<111>>
    /\ m_out.value.overrideContents = <<111>>

\* C17: the display text of a decoded CodeBlock (the contents the parser
\* returns, and the content the client takes from it) is the first
\* non-empty of contents (field 4), override contents (6), file contents
\* (2) and original contents (7); it is empty only when all four are.
C17_DisplayTextPrecedence ==
    (MsgDecoded /\ m_kind = "CodeBlock")
        => /\ m_out.st = "ok"
           /\ m_out.value.contents = DisplayText(m_msg)
           /\ DisplayText(m_msg) # << >> =>
                 ChunkContent(m_out.value) = DisplayText(m_msg)
           /\ m_out.value.contents = << >> =>
                 /\ m_msg.contents = << >>
                 /\ m_msg.override_contents = << >>
                 /\ m_msg.file_contents = << >>
                 /\ m_msg.original_contents = << >>
           /\ (/\ m_msg.contents = << >>
               /\ m_msg.file_contents = << >>
               /\ m_msg.original_contents = << >>)
                 => m_out.value.contents = m_msg.override_contents

C17_Witness ==
    /\ MsgDecoded
    /\ m_kind = "CodeBlock"
    /\ m_msg.contents = << >>
    /\ m_msg.override_contents = <<111>>
    /\ m_msg.file_contents = <<102>>
    /\ m_msg.original_contents = <<103>>
    /\ m_out.value.contents = <<111>>
    /\ ChunkContent(m_out.value) = <<111>>

\* The score field of a CodeResult on the wire: tag 0x11 (field 2, wire
\* type 1) or 0x15 (field 2, wire type 5).
IsScorePart(part) == part[1] \in {17, 21}
IsNoScorePart(part) == ~IsScorePart(part)
HasScorePart == \E i \in 1..Len(m_parts) : IsScorePart(m_parts[i])
ScoreIndex == CHOOSE i \in 1..Len(m_parts) : IsScorePart(m_parts[i])
ScoreOffset == Len(Flat(SubSeq(m_parts, 1, ScoreIndex - 1)))
ScoreWidth == IF m_parts[ScoreIndex][1] = 17 THEN 8 ELSE 4

\* C18: parse_code_result reads the score at field 2 in either width: the
\* pass over a score of wire type 1 moves 8 bytes past the tag and one of
\* wire type 5 moves 4 bytes, the score returned is the value sent, and
\* the code block is decoded as from the same bytes without the score,
\* whether the score comes before or after it.
C18_ScoreEitherWidth ==
    (MsgDecoded /\ m_kind = "CodeResult" /\ HasScorePart)
        => /\ ParseCodeResultIteration(Flat(m_parts), ScoreOffset,
                                       NewCodeResult).st = "ok"
           /\ ParseCodeResultIteration(Flat(m_parts), ScoreOffset,
                                       NewCodeResult).pos
                 = ScoreOffset + 1 + ScoreWidth
           /\ m_out.st = "ok"
           /\ m_out.value.score = m_msg.score.x
           /\ m_out.value.codeBlock
                 = ParseCodeResult(Flat(SelectSeq(m_parts, IsNoScorePart)), 0,
                                   Len(Flat(SelectSeq(m_parts, IsNoScorePart)))
                                  ).value.codeBlock

C18_Witness ==
    /\ MsgDecoded
    /\ m_kind = "CodeResult"
    /\ Len(m_parts) = 2
    /\ m_parts[1] = FloatScoreField
    /\ m_parts[2][1] = 10
    /\ m_out.value.score = MinusOneAndHalf
    /\ m_out.value.codeBlock.relativeWorkspacePath = PathAB
    /\ m_out.value.codeBlock.range.startPosition.line = ToPy(3)

\* C19: fields with unknown numbers, of wire type 0, 1, 2 or 5, put
\* before, between or after the fields of a Position, Range, CodeBlock,
\* CodeResult or response (at any depth of nesting) are skipped: the
\* parser returns what it returns for the same bytes without them.
C19_UnknownFieldsSkipped ==
    (MsgDecoded /\ m_unknown > 0)
        => /\ m_out.st = "ok"
           /\ m_out = ParseMessage(m_kind, m_plain)

C19_Witness ==
    /\ MsgDecoded
    /\ m_kind = "Response"
    /\ m_unknown = 1
    /\ Len(m_plain) + 5 = Len(Flat(m_parts))
    /\ Len(m_parts) = 1
    /\ Len(m_out.value) = 1
    /\ m_out.value[1].codeBlock.relativeWorkspacePath = PathAB
    /\ m_out.value[1].codeBlock.range.startPosition.line = ToPy(300)

----------------------------------------------------------------------------
(* Claims on the request encoders                                          *)

\* query "", repo_name "", repo_owner "", top_k 0, rerank False,
\* is_tracked False, is_local False and every optional argument absent.
AllListedDefault ==
    \A key \in RequestArgNames : q_args[key] = EmptyArgs[key]

RequestEncoded ==
    /\ q_pc = "encoded"
    /\ q_fn \in {"encode_search_repository_request",
                 "encode_sem_search_request"}

\* C11 as stated: encode_search_repository_request and
\* encode_sem_search_request, called with every field empty, zero or false
\* and every optional argument absent, return b"".
C11_AllDefaultRequestIsEmpty ==
    (RequestEncoded /\ AllListedDefault) => q_out = << >>

\* C11 as amended: with every listed argument empty, zero, false or absent
\* encode_repository_info returns b"" exactly when its
\* relative_workspace_path is "" as well; the request encoders, which
\* leave relative_workspace_path at its default ".", return the repository
\* info field holding that path and nothing else.
C11_DefaultRequestHoldsWorkspacePath ==
    (q_pc = "encoded" /\ AllListedDefault) =>
        /\ q_fn = "encode_repository_info" =>
              q_out = IF q_args.relative_workspace_path = << >> THEN << >>
                      ELSE <<10, 1, 46>>
        /\ q_fn = "encode_search_repository_request" =>
              q_out = <<18, 3, 10, 1, 46>>
        /\ q_fn = "encode_sem_search_request" =>
              q_out = <<10, 5, 18, 3, 10, 1, 46>>

C11_Witness ==
    /\ q_pc = "encoded"
    /\ q_fn = "encode_sem_search_request"
    /\ q_args = EmptyArgs
    /\ q_out = <<10, 5, 18, 3, 10, 1, 46>>

\* varint((field_number << 3) | wire_type)
WireTag(field_number, wire_type) ==
    EncodeVarint(ToPy(field_number * 8 + wire_type))

\* A field of wire type 2: its tag, the length of the payload, the payload.
LengthDelimited(field_number, payload) ==
    WireTag(field_number, 2) \o EncodeVarint(ToPy(Len(payload))) \o payload

\* The fields of a SearchRepositoryRequest in their order, each present
\* only when its argument is not empty, zero, false or absent.
InnerOfArgs ==
    (IF q_args.query # << >>
     THEN LengthDelimited(1, Utf8Encode(q_args.query)) ELSE << >>)
    \o (IF RepositoryInfoOfRequest(q_args) # << >>
        THEN LengthDelimited(2, RepositoryInfoOfRequest(q_args)) ELSE << >>)
    \o (IF q_args.top_k # ToPy(0)
        THEN WireTag(3, 0) \o EncodeVarint(q_args.top_k) ELSE << >>)
    \o (IF q_args.rerank THEN WireTag(5, 0) \o <<1>> ELSE << >>)
    \o (IF q_args.glob_filter.present /\ q_args.glob_filter.s # << >>
        THEN LengthDelimited(7, Utf8Encode(q_args.glob_filter.s))
        ELSE << >>)

\* C25: encode_search_repository_request returns the fields 1 (query), 2
\* (repository info), 3 (top-k), 5 (rerank) and 7 (glob filter) in this
\* order, each only when it is not at its default, and
\* encode_sem_search_request returns that message as field 1: the tag of
\* field 1 with wire type 2, the length of the message, the message.
C25_RequestWireFormat ==
    /\ (q_pc = "encoded" /\ q_fn = "encode_search_repository_request")
           => q_out = InnerOfArgs
    /\ (q_pc = "encoded" /\ q_fn = "encode_sem_search_request")
           => q_out = LengthDelimited(1, InnerOfArgs)

\* query "q" and glob filter "u" as a SemSearchRequest
C25_Witness ==
    /\ q_pc = "encoded"
    /\ q_fn = "encode_sem_search_request"
    /\ q_args.query = <<113>>
    /\ q_args.glob_filter = SomeStr(<<117>>)
    /\ q_out = <<10, 11, 10, 1, 113, 18, 3, 10, 1, 46, 58, 1, 117>>

----------------------------------------------------------------------------
(* Claims on the path encryption                                           *)

PathDecrypted == p_pc = "decrypted"

KeyedScheme == BuildPathEncryptionScheme(p_key).keyed

\* C20: for every path string p and every scheme s built by
\* build_path_encryption_scheme, from a key or from none,
\* decrypt_path(encrypt_path(p, s), s) == p.
C20_PathRoundTrip ==
    PathDecrypted => p_dec = TextOk(p_path)

\* Some part of the path between separators ends in a NUL character.
SegmentEndsInNul(path) ==
    \E i \in 1..Len(path) :
        /\ path[i] = 0
        /\ i = Len(path) \/ path[i + 1] \in PathSeparators

\* C20 as the code has it: the round trip holds under the scheme built
\* without a key for every path string, and under a scheme built from a
\* key for every path string none of whose segments ends in a NUL
\* character (the padding of a segment is NUL and is stripped on the way
\* back).
C20_PathRoundTripButTrailingNul ==
    (PathDecrypted /\ (KeyedScheme => ~SegmentEndsInNul(p_path)))
        => p_dec = TextOk(p_path)

\* What comes back for a segment that ends in NUL: the segment without it.
TrailingNulLost ==
    (PathDecrypted /\ KeyedScheme /\ SegmentEndsInNul(p_path))
        => /\ p_dec.st = "ok"
           /\ p_dec.str # p_path
           /\ Len(p_dec.str) < Len(p_path)

\* The separators of the path stand in the encrypted path, in order, and
\* the text between them is base64url text.
SeparatorsOf(path) == SelectSeq(path, LAMBDA c : c \in PathSeparators)

SeparatorsKept ==
    (p_pc \in {"encrypted", "decrypted"} /\ KeyedScheme)
        => /\ SeparatorsOf(p_enc) = SeparatorsOf(p_path)
           /\ \A i \in 1..Len(p_enc) :
                  p_enc[i] \in PathSeparators \cup B64UrlAlphabet

C20_Witness ==
    /\ PathDecrypted
    /\ KeyedScheme
    /\ p_path = <<233, 92, 97>>
    /\ Len(p_enc) > Len(p_path)
    /\ SeparatorsOf(p_enc) = <<92>>
    /\ p_dec = TextOk(p_path)

PathEncrypted == p_pc \in {"encrypted", "decrypted"}

HasNoSeparator(token) == \A i \in 1..Len(token) : token[i] \notin PathSeparators

\* C21: the encrypted path, split on ".", "/" and "\", has as many tokens
\* as the path; a separator stands where the path has it, an empty token
\* where the path has one, and where the path has a name stands a token
\* that is not empty and holds no separator character.
C21_StructureVisible ==
    PathEncrypted =>
        /\ Len(PathSplit(p_enc)) = Len(PathSplit(p_path))
        /\ \A i \in 1..Len(PathSplit(p_path)) :
               IF KeptAsIs(PathSplit(p_path)[i])
               THEN PathSplit(p_enc)[i] = PathSplit(p_path)[i]
               ELSE /\ PathSplit(p_enc)[i] # << >>
                    /\ HasNoSeparator(PathSplit(p_enc)[i])

C21_Witness ==
    /\ p_pc = "encrypted"
    /\ KeyedScheme
    /\ p_path = <<47, 97, 46>>
    /\ Len(PathSplit(p_enc)) = 5
    /\ PathSplit(p_enc)[2] = <<47>> /\ PathSplit(p_enc)[4] = <<46>>
    /\ PathSplit(p_enc)[1] = << >> /\ PathSplit(p_enc)[5] = << >>
    /\ Len(PathSplit(p_enc)[3]) > 1

\* The ciphertext inside a token: what follows the six bytes of the prefix.
\* AES-CTR gives as many bytes as it is handed.
CipherTextOf(token) ==
    Bind(B64UrlDecode(token).bytes, LAMBDA raw : SubSeq(raw, 7, Len(raw)))

\* (4 - n % 4) % 4
PadOf(n) == (4 - (n % 4)) % 4

\* C27: under the keyed scheme the cipher is handed the UTF-8 bytes of the
\* segment padded with NUL to a multiple of 4 bytes, the pad counted on
\* the byte length: the ciphertext of every segment is that long.
C27_PaddedToFourBytes ==
    (PathEncrypted /\ KeyedScheme) =>
        \A i \in 1..Len(PathSplit(p_path)) :
            ~KeptAsIs(PathSplit(p_path)[i]) =>
                Len(CipherTextOf(PathSplit(p_enc)[i]))
                    = Len(Utf8Encode(PathSplit(p_path)[i]))
                        + PadOf(Len(Utf8Encode(PathSplit(p_path)[i])))

\* What the code does: the pad is counted on the characters of the
\* segment.
PaddedOnCharacters ==
    (PathEncrypted /\ KeyedScheme) =>
        \A i \in 1..Len(PathSplit(p_path)) :
            ~KeptAsIs(PathSplit(p_path)[i]) =>
                Len(CipherTextOf(PathSplit(p_enc)[i]))
                    = Len(Utf8Encode(PathSplit(p_path)[i]))
                        + PadOf(Len(PathSplit(p_path)[i]))

\* The segment "é": two bytes, padded as one character to five bytes.
C27_Witness ==
    /\ p_pc = "encrypted"
    /\ KeyedScheme
    /\ p_path = <<233>>
    /\ Len(CipherTextOf(p_enc)) = 5

----------------------------------------------------------------------------
(* Claims on the glob encryption                                           *)

GlobEncrypted == g_pc = "encrypted"

GlobScheme == BuildPathEncryptionScheme(g_key)

IsGlobDelimiter(part) == part # << >> /\ part[1] \in GlobDelimiters

HasStar(part) == \E i \in 1..Len(part) : part[i] = Star

\* The output of encrypt_glob, token by token.
GlobTokenwise ==
    GlobEncrypted =>
        /\ Len(GlobSplit(g_out)) = Len(GlobSplit(GlobPattern))
        /\ \A i \in 1..Len(GlobSplit(GlobPattern)) :
               LET token == GlobSplit(GlobPattern)[i]
                   image == GlobSplit(g_out)[i]
               IN  IF token = << >> \/ IsGlobDelimiter(token)
                       \/ token = <<Star, Star>>
                   THEN image = token
                   ELSE IF HasStar(token) THEN image = <<Star>>
                   ELSE image = SchemeEncrypt(GlobScheme, token)

\* encrypt_glob("src/**") = encrypt("src") + "/**"
GlobOfDirectory ==
    (GlobEncrypted /\ GlobPattern = <<115, 114, 99, 47, Star, Star>>)
        => g_out = SchemeEncrypt(GlobScheme, <<115, 114, 99>>)
                       \o <<47, Star, Star>>

\* encrypt_glob("a*b/c") = "*/" + encrypt("c")
GlobOfPartialWildcard ==
    (GlobEncrypted /\ GlobPattern = <<97, Star, 98, 47, 99>>)
        => g_out = <<Star, 47>> \o SchemeEncrypt(GlobScheme, <<99>>)

\* C22: the output of encrypt_glob, split like the pattern, has for every
\* token of the pattern one token: the same for a delimiter, an empty
\* token and "**"; "*" for any other token with a "*" in it; the token
\* encrypted by the scheme otherwise.
\* So encrypt_glob("src/**") = encrypt("src") + "/**" and
\* encrypt_glob("a*b/c") = "*/" + encrypt("c").
C22_GlobTokenwise ==
    GlobTokenwise /\ GlobOfDirectory /\ GlobOfPartialWildcard

C22_Witness ==
    /\ GlobEncrypted
    /\ GlobScheme.keyed
    /\ g_pieces = <<(<<97, Star, 98>>), <<47>>, <<99>>>>
    /\ g_out = <<Star, 47>> \o SchemeEncrypt(GlobScheme, <<99>>)
    /\ Len(g_out) > 3

----------------------------------------------------------------------------
(* Claims on the paths of a response under a key                           *)

KeyedParsed == k_pc = "parsed"

ClientScheme == BuildPathEncryptionScheme(k_key)

\* decrypt_path raises on the path of the result.
DecryptFails ==
    ClientScheme.keyed /\ DecryptPath(k_token, ClientScheme).st # "ok"

IntactTokenDecrypted ==
    (KeyedParsed /\ k_damage = "no")
        => /\ k_parsed.metadata.kind = "None"
           /\ Len(k_parsed.chunks) = 1
           /\ k_parsed.chunks[1].file_path = k_path

\* What the client does when decrypt_path raises: the chunk carries the
\* token as its file path, and nothing is reported.
FailureSwallowed ==
    (KeyedParsed /\ DecryptFails)
        => /\ k_parsed.metadata.kind = "None"
           /\ Len(k_parsed.chunks) = 1
           /\ k_parsed.chunks[1].file_path = k_token

----------------------------------------------------------------------------
(* Claims on the checksum                                                  *)

TwoChecksums == c_pc = "two"

\* The transform follows the running byte: w starts at 165, each byte
\* becomes ((b XOR w) + i) mod 256 and is the next w.
FollowsRunningByte(data, out) ==
    /\ Len(out) = Len(data)
    /\ \A i \in 1..Len(data) :
          out[i] = (XorByte(data[i], IF i = 1 THEN 165 ELSE out[i - 1])
                       + ((i - 1) % 256)) % 256

\* C24: the checksum is a deterministic, injective function of the
\* timestamp and the machine id: the transform of the six timestamp bytes
\* follows the running byte, distinct timestamps give distinct transformed
\* bytes, and two checksums are equal exactly when both the timestamps and
\* the machine ids are.
C24_ChecksumInjective ==
    TwoChecksums
        => /\ c_out.st = "ok" /\ c_out2.st = "ok"
           /\ FollowsRunningByte(ToBytes6(c_ts).bytes,
                                 EncryptBytes(ToBytes6(c_ts).bytes))
           /\ (EncryptBytes(ToBytes6(c_ts).bytes)
                   = EncryptBytes(ToBytes6(c_ts2).bytes)) <=> (c_ts = c_ts2)
           /\ (c_out.str = c_out2.str)
                  <=> (c_ts = c_ts2 /\ c_mid = c_mid2)

\* Two checksums of different times for different machine ids, one a
\* prefix of the other.
C24_Witness ==
    /\ TwoChecksums
    /\ c_ts # c_ts2
    /\ Len(c_ts) = 2 /\ Len(c_ts2) = 2
    /\ c_mid = <<65>> /\ c_mid2 = <<65, 65>>
    /\ c_out.str # c_out2.str
    /\ Len(c_out.str) = 9

----------------------------------------------------------------------------
(* Claims on calls made at the same time                                   *)

\* What the call returns or raises when nothing else runs.
Alone(call, scheme) ==
    IF call.op = "encrypt_path"
    THEN Out("ok", EncryptPath(call.arg, scheme))
    ELSE IF call.op = "decrypt_path"
    THEN Bind(DecryptPath(call.arg, scheme), LAMBDA r : Out(r.st, r.str))
    ELSE IF call.op = "encrypt_glob"
    THEN Out("ok", EncryptGlob(call.arg, scheme))
    ELSE IF call.op = "_encrypt_bytes"
    THEN Out("ok", EncryptBytes(call.arg))
    ELSE IF call.op = "decode_connect_envelope"
    THEN Bind(DecodeConnectEnvelope(call.arg), LAMBDA r :
             Out(r.st, r.messages))
    ELSE IF call.op = "parse_search_response"
    THEN Bind(ParseSearchResponse(call.arg), LAMBDA r : Out(r.st, r.value))
    ELSE Out("ok", EncodeString(1, call.arg))

\* The scheme as it was constructed.
SchemeAsBuilt ==
    t_scheme \in {BuildPathEncryptionScheme(key) : key \in GlobKeys}

\* C26: calls of the codec and crypto operations that run at the same
\* time, in any interleaving and with one scheme, return what they return
\* when run alone, and the subkeys of the scheme stay as constructed.
C26_ConcurrentAsSequential ==
    t_pcs # << >> =>
        /\ SchemeAsBuilt
        /\ \A t \in Threads :
              t_pcs[t] = "returned" => t_outs[t] = Alone(t_calls[t], t_scheme)

\* Two calls of different operations under the keyed scheme, both returned.
C26_Witness ==
    /\ t_pcs = [t \in Threads |-> "returned"]
    /\ t_scheme.keyed
    /\ t_calls[1].op = "encrypt_path"
    /\ t_calls[2].op = "decrypt_path"
    /\ t_outs[1] # t_outs[2]
    /\ t_outs[2] = Out("ok", PathAB)

----------------------------------------------------------------------------
(* Claims on the termination of the encoders                               *)

LoopReturned == l_pc = "returned"

\* C28: a call of encode_varint or encode_int32 returns, whatever int it
\* is called with, negative ones included.
C28_EncodersTerminate == <>LoopReturned

\* For an int that is not negative the call returns.
NonNegativeTerminates == (l_pc = "loop" /\ l_arg >= 0) ~> LoopReturned

\* For a negative int value >>= 7 ends at -1 and stays there: the loop
\* is never left.
NegativeNeverReturns == (l_arg < 0) => (l_pc = "loop" /\ l_value < 0)

\* What a call that returns returns: the bytes of the varint encoder.
ReturnsTheVarint ==
    (LoopReturned /\ l_fn = "encode_varint")
        => l_out = EncodeVarint(ToPy(l_arg))

\* encode_int32(3, -1) after as many passes as are recorded, still inside
\* the loop of encode_varint.
C28_Witness ==
    /\ l_pc = "loop"
    /\ l_fn = "encode_int32"
    /\ l_arg = -1
    /\ l_value = -1
    /\ l_out = <<24>>
    /\ l_result = [i \in 1..MaxLoopBytes |-> 255]

----------------------------------------------------------------------------
(* Claims on the search and on the client of the server                    *)

AnsweredOk(reply) == reply.kind = "status" /\ reply.status_code = 200

AnsweredOther(reply) == reply.kind = "status" /\ reply.status_code # 200

\* C29: search sends at most two requests, SemSearch first and
\* SearchRepositoryV2 only after SemSearch was answered with a status other
\* than 200; an answer of 200 ends the call with the parsed answer; a
\* request error, or a second answer other than 200, ends it with a
\* RuntimeError, and a SearchResult comes from an answer of 200 alone.
C29_SearchOrder ==
    /\ Len(s_sent) <= 2 /\ Len(s_replies) <= Len(s_sent)
    /\ Len(s_sent) >= 1 => s_sent[1].service = "SemSearch"
    /\ Len(s_sent) = 2 =>
          /\ s_sent[2].service = "SearchRepositoryV2"
          /\ AnsweredOther(s_replies[1])
    /\ \A i \in 1..Len(s_replies) :
          /\ AnsweredOk(s_replies[i]) =>
                /\ i = Len(s_replies) /\ i = Len(s_sent)
                /\ s_pc = "returned"
                /\ s_out = [kind |-> "SearchResult",
                            result |-> ParseProtoResponseOf(
                                           s_replies[i].content,
                                           s_client.path_encryption_key)]
          /\ (\/ s_replies[i].kind = "error"
              \/ (i = 2 /\ AnsweredOther(s_replies[i])))
                => /\ i = Len(s_replies) /\ i = Len(s_sent)
                   /\ s_pc = "raised"
                   /\ s_out.kind = "RuntimeError"
          /\ (i = 1 /\ AnsweredOther(s_replies[i])) => Len(s_sent) = 2
    /\ s_out.kind = "SearchResult" =>
          /\ s_pc = "returned"
          /\ AnsweredOk(s_replies[Len(s_replies)])

\* 503 to SemSearch, then 200 with one result to SearchRepositoryV2.
C29_Witness ==
    /\ s_pc = "returned"
    /\ Len(s_sent) = 2
    /\ s_replies[1].status_code = 503
    /\ s_replies[2] = Status(200, BodyOfPath(PathAB))
    /\ Len(s_out.result.chunks) = 1

\* The fields of a message as they stand on the wire: the number of each
\* and, for a field of wire type 2, its payload.
RECURSIVE WireFieldsFrom(_, _, _)
WireFieldsFrom(data, pos, acc) ==
    IF pos >= Len(data) THEN acc
    ELSE Bind(DecodeVarint(data, pos), LAMBDA t :
        IF t.st # "ok" THEN acc
        ELSE IF WireType(t.value) = 2
        THEN Bind(DecodeVarint(data, t.pos), LAMBDA l :
            IF l.st # "ok" THEN acc
            ELSE WireFieldsFrom(data, l.pos + IntOf(l.value),
                     Append(acc, [number |-> IntOf(FieldNumber(t.value)),
                                  payload |-> Slice(data, l.pos,
                                                 l.pos + IntOf(l.value))])))
        ELSE Bind(SkipField(data, t.pos, WireType(t.value)), LAMBDA k :
            IF k.st # "ok" THEN acc
            ELSE WireFieldsFrom(data, k.pos,
                     Append(acc, [number |-> IntOf(FieldNumber(t.value)),
                                  payload |-> << >>]))))

WireFields(data) == WireFieldsFrom(data, 0, << >>)

NumbersOnWire(data) ==
    {WireFields(data)[i].number : i \in 1..Len(WireFields(data))}

\* The payload of the first field with the number.
PayloadOf(data, number) ==
    WireFields(data)[CHOOSE i \in 1..Len(WireFields(data)) :
                         /\ WireFields(data)[i].number = number
                         /\ \A j \in 1..(i - 1) :
                                WireFields(data)[j].number # number].payload

\* The RepositoryInfo inside a request as it was posted.
RepositoryInfoOfPosted(sent) ==
    Bind(DecodeConnectEnvelope(sent.content).messages[1], LAMBDA message :
        IF sent.service = "SemSearch"
        THEN PayloadOf(PayloadOf(message, 1), 2)
        ELSE PayloadOf(message, 2))

ClientBuilt == s_pc \notin {"start", "idle"}

KeyedLocalMode == KeysAndAuthId(s_env.cursor_keys, s_env.auth_id)

\* C30: a client the server builds with repo keys and an auth id is local,
\* not tracked and without a remote URL, and every RepositoryInfo it sends
\* has no field 2, 3 and 6 and has field 7; a client built otherwise is
\* not local, tracked and without a path encryption key.
C30_KeyedLocalClient ==
    ClientBuilt =>
        IF KeyedLocalMode
        THEN /\ s_client.is_local /\ ~s_client.is_tracked
             /\ s_client.remote_url = NoneStr
             /\ \A i \in 1..Len(s_sent) :
                   /\ NumbersOnWire(RepositoryInfoOfPosted(s_sent[i]))
                          \cap {2, 3, 6} = {}
                   /\ 7 \in NumbersOnWire(RepositoryInfoOfPosted(s_sent[i]))
        ELSE /\ ~s_client.is_local /\ s_client.is_tracked
             /\ s_client.path_encryption_key = NoneStr

\* A repository with a remote URL, keys with a seed and a path encryption
\* key: both requests sent, the RepositoryInfo of the second read back.
C30_Witness ==
    /\ KeyedLocalMode
    /\ s_env.repo_info.remote_url = SomeStr(<<117>>)
    /\ s_env.cursor_keys.path_encryption_key = SomeStr(<<65, 65, 69, 67>>)
    /\ Len(s_sent) = 2
    /\ NumbersOnWire(RepositoryInfoOfPosted(s_sent[2])) = {1, 4, 5, 7, 9, 11}

----------------------------------------------------------------------------
(* Specifications: one per component, the others resting idle.             *)

InitVarint ==
    /\ VarintInit
    /\ FieldIdle /\ EnvIdle /\ DecIdle /\ RespIdle /\ ReqIdle /\ MsgIdle
    /\ PathIdle /\ GlobIdle /\ KeyedIdle /\ ChecksumIdle /\ ThreadIdle
    /\ LoopIdle /\ SearchIdle

SpecVarint == InitVarint /\ [][VarintNext]_vars

InitFields ==
    /\ FieldInit
    /\ VarintIdle /\ EnvIdle /\ DecIdle /\ RespIdle /\ ReqIdle /\ MsgIdle
    /\ PathIdle /\ GlobIdle /\ KeyedIdle /\ ChecksumIdle /\ ThreadIdle
    /\ LoopIdle /\ SearchIdle

SpecFields == InitFields /\ [][FieldNext]_vars

InitEnvelope ==
    /\ EnvInit
    /\ VarintIdle /\ FieldIdle /\ DecIdle /\ RespIdle /\ ReqIdle
    /\ MsgIdle /\ PathIdle /\ GlobIdle /\ KeyedIdle /\ ChecksumIdle
    /\ ThreadIdle /\ LoopIdle /\ SearchIdle

SpecEnvelope == InitEnvelope /\ [][EnvNext]_vars

InitDecoders ==
    /\ DecInit
    /\ VarintIdle /\ FieldIdle /\ EnvIdle /\ RespIdle /\ ReqIdle
    /\ MsgIdle /\ PathIdle /\ GlobIdle /\ KeyedIdle /\ ChecksumIdle
    /\ ThreadIdle /\ LoopIdle /\ SearchIdle

SpecDecoders == InitDecoders /\ [][DecNext]_vars

InitResponse ==
    /\ RespInit
    /\ VarintIdle /\ FieldIdle /\ EnvIdle /\ DecIdle /\ ReqIdle /\ MsgIdle
    /\ PathIdle /\ GlobIdle /\ KeyedIdle /\ ChecksumIdle /\ ThreadIdle
    /\ LoopIdle /\ SearchIdle

SpecResponse == InitResponse /\ [][RespNext]_vars

InitRequest ==
    /\ ReqInit
    /\ VarintIdle /\ FieldIdle /\ EnvIdle /\ DecIdle /\ RespIdle
    /\ MsgIdle /\ PathIdle /\ GlobIdle /\ KeyedIdle /\ ChecksumIdle
    /\ ThreadIdle /\ LoopIdle /\ SearchIdle

SpecRequest == InitRequest /\ [][ReqNext]_vars

InitMessages ==
    /\ MsgInit
    /\ VarintIdle /\ FieldIdle /\ EnvIdle /\ DecIdle /\ RespIdle
    /\ ReqIdle /\ PathIdle /\ GlobIdle /\ KeyedIdle /\ ChecksumIdle
    /\ ThreadIdle /\ LoopIdle /\ SearchIdle

SpecMessages == InitMessages /\ [][MsgNext]_vars

InitPath ==
    /\ PathInit
    /\ VarintIdle /\ FieldIdle /\ EnvIdle /\ DecIdle /\ RespIdle
    /\ ReqIdle /\ MsgIdle /\ GlobIdle /\ KeyedIdle /\ ChecksumIdle
    /\ ThreadIdle /\ LoopIdle /\ SearchIdle

SpecPath == InitPath /\ [][PathNext]_vars

InitGlob ==
    /\ GlobInit
    /\ VarintIdle /\ FieldIdle /\ EnvIdle /\ DecIdle /\ RespIdle
    /\ ReqIdle /\ MsgIdle /\ PathIdle /\ KeyedIdle /\ ChecksumIdle
    /\ ThreadIdle /\ LoopIdle /\ SearchIdle

SpecGlob == InitGlob /\ [][GlobNext]_vars

InitKeyed ==
    /\ KeyedInit
    /\ VarintIdle /\ FieldIdle /\ EnvIdle /\ DecIdle /\ RespIdle
    /\ ReqIdle /\ MsgIdle /\ PathIdle /\ GlobIdle /\ ChecksumIdle
    /\ ThreadIdle /\ LoopIdle /\ SearchIdle

SpecKeyed == InitKeyed /\ [][KeyedNext]_vars

InitChecksum ==
    /\ ChecksumInit
    /\ VarintIdle /\ FieldIdle /\ EnvIdle /\ DecIdle /\ RespIdle
    /\ ReqIdle /\ MsgIdle /\ PathIdle /\ GlobIdle /\ KeyedIdle
    /\ ThreadIdle /\ LoopIdle /\ SearchIdle

SpecChecksum == InitChecksum /\ [][ChecksumNext]_vars

InitThread ==
    /\ ThreadInit
    /\ VarintIdle /\ FieldIdle /\ EnvIdle /\ DecIdle /\ RespIdle
    /\ ReqIdle /\ MsgIdle /\ PathIdle /\ GlobIdle /\ KeyedIdle
    /\ ChecksumIdle /\ LoopIdle /\ SearchIdle

SpecThread == InitThread /\ [][ThreadNext]_vars

InitLoop ==
    /\ LoopInit
    /\ VarintIdle /\ FieldIdle /\ EnvIdle /\ DecIdle /\ RespIdle
    /\ ReqIdle /\ MsgIdle /\ PathIdle /\ GlobIdle /\ KeyedIdle
    /\ ChecksumIdle /\ ThreadIdle /\ SearchIdle

SpecLoop == InitLoop /\ [][LoopNext]_vars

\* A call that has statements left to run runs them.
SpecLoopFair == SpecLoop /\ WF_vars(LoopNext)

InitSearch ==
    /\ SearchInit
    /\ VarintIdle /\ FieldIdle /\ EnvIdle /\ DecIdle /\ RespIdle
    /\ ReqIdle /\ MsgIdle /\ PathIdle /\ GlobIdle /\ KeyedIdle
    /\ ChecksumIdle /\ ThreadIdle /\ LoopIdle

SpecSearch == InitSearch /\ [][SearchNext]_vars

=============================================================================
